---- MODULE Spec2Model ----
(***************************************************************************)
(* A model of the WBXML codec of gleroi/wbxml: the primitive codec         *)
(* (multi-byte integers, inline strings), the token decoder that runs as   *)
(* a background producer feeding an unbuffered channel, and the token      *)
(* encoder.  Bytes are naturals in 0..255, byte slices are sequences, a    *)
(* uint64 is a vector of 7-bit limbs so that values up to 2^64-1 keep      *)
(* their width.                                                            *)
(***************************************************************************)
EXTENDS Integers, Sequences, FiniteSets, TLC

VARIABLES
    input,      \* the bytes of the underlying stream (e.w of the encoder, d.r of the decoder)
    eof,        \* TRUE once the stream is complete: a read past the end returns io.EOF
    fed,        \* number of chunks the environment has put on the stream
    e,          \* the Encoder: tagPage, attrPage, ignoreEnd, Header and the writer w
    T,          \* the EncodeToken calls so far: token, bytes written, error, encoder before and after
    eret,       \* the error of the last encoder call: "none" before any call, "nil" for no error
    d,          \* the Decoder: tagPage, attrPage, offset, err, Header
    pc,         \* where the producer goroutine d.run() stands
    stack,      \* the content() frames of the elements the producer has open
    elt,        \* element(): the StartElement under construction and its tag byte
    b,          \* attributes(): the local b, the byte the loop switches on
    tokChan,    \* the tokens the producer is about to send on d.tokChan, in order
    delivered,  \* the tokens Token() has returned, in order
    ret,        \* the result of the last Token() call
    mb,         \* the multi-byte integer under test: value, width, bytes written, value read
    dropped,    \* TRUE once the consumer has stopped calling Token()
    bind,       \* the value given to EncodeElement and the result of Decode
    tab,        \* the string table under test: table, offset, string and the results
    tagByte     \* the tag byte under test: code and flags, the byte composed, what Tag reads

vars == <<input, eof, fed, e, T, eret, d, pc, stack, elt, b, tokChan, delivered, ret, mb,
          dropped, bind, tab, tagByte>>

streamVars == <<input, eof, fed>>
encVars == <<e, T, eret>>
decVars == <<d, pc, stack, elt, b, tokChan, delivered, ret>>

-----------------------------------------------------------------------------
(* Global tokens of the wire format.                                       *)

gloSwitchPage == 0
gloEnd == 1
gloEntity == 2
gloStrI == 3
gloLiteral == 4
gloExtI0 == 64
gloExtI1 == 65
gloExtI2 == 66
gloPi == 67
gloLiteralC == 68
gloExtT0 == 128
gloExtT1 == 129
gloExtT2 == 130
gloStrT == 131
gloLiteralA == 132
gloExt0 == 192
gloExt1 == 193
gloExt2 == 194
gloOpaque == 195
gloLiteralAC == 196

tagAttrMask == 128
tagContentMask == 64

Byte == 0..255

\* b & mask != 0 for a mask of one bit
HasBit(x, mask) == (x \div mask) % 2 = 1
\* b | mask for a mask of one bit
OrBit(x, mask) == IF HasBit(x, mask) THEN x ELSE x + mask

\* Tag.Attr, Tag.Content
TagAttr(t) == HasBit(t, 128)
TagContent(t) == HasBit(t, 64)
\* a plausible slip: the mask 0x7F for 0x3F
TagIDLow7(t) == t % 128
\* Tag.ID
TagID(t) == t % 64

-----------------------------------------------------------------------------
(* uint64 as ten limbs of 7 bits, least significant first; the tenth limb  *)
(* holds bit 63 alone.                                                     *)

Limbs == 10

U64Zero == [i \in 1..Limbs |-> 0]
IsZero(v) == \A i \in 1..Limbs : v[i] = 0
\* v & 0x7f
Low7(v) == v[1]
\* v >> 7
Shr7(v) == [i \in 1..Limbs |-> IF i < Limbs THEN v[i + 1] ELSE 0]
\* (v << 7) | x, for x < 128, in 64 bits: the bits shifted out of bit 63 are lost
Shl7Or(v, x) == [i \in 1..Limbs |-> IF i = 1 THEN x
                                     ELSE IF i = Limbs THEN v[Limbs - 1] % 2
                                     ELSE v[i - 1]]
\* uint64(n) of a value n < 2^31
FromInt(n) == [i \in 1..Limbs |->
                 CASE i = 1 -> n % 128
                   [] i = 2 -> (n \div 128) % 128
                   [] i = 3 -> (n \div 16384) % 128
                   [] i = 4 -> (n \div 2097152) % 128
                   [] i = 5 -> (n \div 268435456) % 128
                   [] OTHER -> 0]
\* uint32(u) of a value u < 2^28, which is all mbUint(d, 4) returns
ToInt(u) == u[1] + 128 * u[2] + 16384 * u[3] + 2097152 * u[4]

-----------------------------------------------------------------------------
(* The stream and the primitive codec.  A read returns a record whose st   *)
(* is "ok", "eof" (the error io.EOF), "err" (another error) or "more":     *)
(* the read would block, the stream holds no byte yet and is not closed.   *)

\* readByte at position pos (pos bytes have been consumed)
readByte(pos) ==
    IF pos < Len(input)
    THEN [st |-> "ok", val |-> input[pos + 1], pos |-> pos + 1]
    ELSE [st |-> IF eof THEN "eof" ELSE "more", val |-> 0, pos |-> pos]

RECURSIVE MbUintLoop(_, _, _, _)
MbUintLoop(pos, i, max, result) ==
    IF i >= max
    THEN [st |-> "err", val |-> U64Zero, pos |-> pos]
    ELSE LET r == readByte(pos)
         IN IF r.st # "ok"
            THEN [st |-> r.st, val |-> U64Zero, pos |-> r.pos]
            ELSE LET res == Shl7Or(result, r.val % 128)
                 IN IF ~HasBit(r.val, 128)
                    THEN [st |-> "ok", val |-> res, pos |-> r.pos]
                    ELSE MbUintLoop(r.pos, i + 1, max, res)

\* mbUint(d, max): read at most max bytes of a multi-byte integer
mbUint(pos, max) == MbUintLoop(pos, 0, max, U64Zero)

\* mbUint32(d)
mbUint32(pos) ==
    LET r == mbUint(pos, 4)
    IN [st |-> r.st, val |-> IF r.st = "ok" THEN ToInt(r.val) ELSE 0, pos |-> r.pos]

RECURSIVE WriteMbUintLoop(_, _, _, _)
\* the loop of writeMbUint; buf is buf[M-i+1 : M]
WriteMbUintLoop(v, i, max, buf) ==
    IF i <= max /\ ~IsZero(v)
    THEN WriteMbUintLoop(Shr7(v), i + 1, max, <<OrBit(Low7(v), 128)>> \o buf)
    ELSE [v |-> v, buf |-> buf]

\* a plausible slip: the continuation bit is left out
WriteMbUintNoCont(v, max) ==
    LET RECURSIVE L(_, _, _)
        L(x, i, buf) == IF i <= max /\ ~IsZero(x)
                        THEN L(Shr7(x), i + 1, <<Low7(x)>> \o buf)
                        ELSE [v |-> x, buf |-> buf]
        r == L(Shr7(v), 2, <<Low7(v)>>)
    IN IF ~IsZero(r.v) THEN [err |-> TRUE, out |-> <<>>]
       ELSE [err |-> FALSE, out |-> r.buf]

\* a plausible slip: the overflow test is left out and the low bytes are written
WriteMbUintNoOverflow(v, max) ==
    LET r == WriteMbUintLoop(Shr7(v), 2, max, <<Low7(v)>>)
    IN [err |-> FALSE, out |-> r.buf]

\* writeMbUint(e, v, max): the bytes written, or an error and no byte
writeMbUint(v, max) ==
    LET r == WriteMbUintLoop(Shr7(v), 2, max, <<Low7(v)>>)
    IN IF ~IsZero(r.v) THEN [err |-> TRUE, out |-> <<>>]
       ELSE [err |-> FALSE, out |-> r.buf]

\* writeMbUint32(e, v), v a value of 32 bits
writeMbUint32(v) == writeMbUint(v, 4)

-----------------------------------------------------------------------------
(* Code spaces, tokens and headers.  Element names are strings, attribute  *)
(* names and values are byte strings (an attribute value is built by       *)
(* appending names of the attribute code space to inline bytes).           *)

\* the tag code space of the documents: page -> code -> name
tagSpace == (0 :> (5 :> "A" @@ 6 :> "B")) @@ (1 :> (5 :> "C"))
\* the attribute code space: attribute starts below 128, attribute values from 128; the
\* name y is on both pages
attrSpace == (0 :> (5 :> <<120>> @@ 7 :> <<121>> @@ 133 :> <<118>>)) @@ (1 :> (5 :> <<121>>))

\* CodeSpace.Name(page, code)
Name(space, page, code) ==
    IF page \notin DOMAIN space THEN [st |-> "err", val |-> ""]
    ELSE IF code \notin DOMAIN space[page] THEN [st |-> "err", val |-> ""]
    ELSE [st |-> "ok", val |-> space[page][code]]

StartElement(n, a, c) == [type |-> "StartElement", Name |-> n, Attr |-> a, Content |-> c]
EndElement(n) == [type |-> "EndElement", Name |-> n]
CharData(s) == [type |-> "CharData", data |-> s]
Opaque(s) == [type |-> "Opaque", data |-> s]
Entity(c) == [type |-> "Entity", code |-> c]
ProcInst == [type |-> "ProcInst"]
Attr(n, v) == [Name |-> n, Value |-> v]

Header(v, p, c, t) == [Version |-> v, PublicID |-> p, Charset |-> c, StringTable |-> t]
NoHeader == Header(0, 0, 0, <<>>)

\* a CharData variable of the decoder: Go tells the nil slice from an empty one
NilData == [nil |-> TRUE, data |-> <<>>]
\* append(c, s...): appending nothing to the nil slice leaves it nil
Append2(c, s) == IF c.nil /\ s = <<>> THEN c ELSE [nil |-> FALSE, data |-> c.data \o s]

-----------------------------------------------------------------------------
(* The decoder's readers.                                                  *)

RECURSIVE ReadStringLoop(_, _)
ReadStringLoop(pos, result) ==
    LET r == readByte(pos)
    IN IF r.st # "ok" THEN [st |-> r.st, val |-> <<>>, pos |-> r.pos]
       ELSE IF r.val = 0 THEN [st |-> "ok", val |-> result, pos |-> r.pos]
       ELSE ReadStringLoop(r.pos, Append(result, r.val))

\* readString(d): the bytes up to the next NUL
readString(pos) == ReadStringLoop(pos, <<>>)

\* d.r.Read(buf) of a bytes.Reader for a buffer of `length` bytes: the bytes
\* read, zero padded to the buffer's length in buf, and their number n
Read(pos, length) ==
    LET remaining == Len(input) - pos
        n == IF length < remaining THEN length ELSE remaining
    IN IF remaining < length /\ ~eof THEN [st |-> "more", n |-> 0, buf |-> <<>>, pos |-> pos]
       ELSE IF remaining = 0 THEN [st |-> "eof", n |-> 0, buf |-> <<>>, pos |-> pos]
       ELSE [st |-> "ok", n |-> n,
             buf |-> [i \in 1..length |-> IF i <= n THEN input[pos + i] ELSE 0],
             pos |-> pos + n]

\* readSlice(d, length)
readSlice(pos, length) ==
    LET r == Read(pos, length)
    IN IF r.st # "ok" THEN [st |-> r.st, val |-> <<>>, pos |-> r.pos]
       ELSE IF r.n # length THEN [st |-> "err", val |-> <<>>, pos |-> r.pos]
       ELSE [st |-> "ok", val |-> r.buf, pos |-> r.pos]

\* Decoder.readHeader
readHeader(pos) ==
    LET v == readByte(pos)
        p1 == mbUint32(v.pos)
        \* a zero public id is followed by a second one, whose error is overwritten
        p2 == IF p1.val = 0 THEN mbUint32(p1.pos) ELSE p1
        c == mbUint32(p2.pos)
        l == mbUint32(c.pos)
        t == Read(l.pos, l.val)
        More(r) == r.st = "more"
    IN IF v.st # "ok" THEN [st |-> v.st, h |-> NoHeader, pos |-> v.pos]
       ELSE IF p1.st # "ok" THEN [st |-> p1.st, h |-> NoHeader, pos |-> p1.pos]
       ELSE IF More(p2) THEN [st |-> "more", h |-> NoHeader, pos |-> p2.pos]
       ELSE IF c.st # "ok" THEN [st |-> c.st, h |-> NoHeader, pos |-> c.pos]
       ELSE IF l.st # "ok" THEN [st |-> l.st, h |-> NoHeader, pos |-> l.pos]
       ELSE IF t.st # "ok" THEN [st |-> t.st, h |-> NoHeader, pos |-> t.pos]
       ELSE [st |-> "ok", h |-> Header(v.val, p2.val, c.val, t.buf), pos |-> t.pos]

RECURSIVE GetStringLoop(_, _, _)
\* the loop of GetString over table[i:]; end counts from 0
GetStringLoop(table, i, end) ==
    IF i + end >= Len(table) THEN [st |-> "err", val |-> <<>>]
    ELSE IF table[i + end + 1] = 0
    THEN [st |-> "ok", val |-> SubSeq(table, i + 1, i + end)]
    ELSE GetStringLoop(table, i, end + 1)

\* a plausible slip: the slice returned holds the terminator
GetStringWithNul(table, i) ==
    LET r == GetStringLoop(table, i, 0)
    IN IF i >= Len(table) \/ r.st # "ok" THEN [st |-> "err", val |-> <<>>]
       ELSE [r EXCEPT !.val = Append(@, 0)]

\* Decoder.GetString(i) on the string table of the header
GetString(table, i) ==
    IF i >= Len(table) THEN [st |-> "err", val |-> <<>>]
    ELSE GetStringLoop(table, i, 0)

\* utf8.RuneLen(rune(c)) for a code c >= 0
RuneLen(c) ==
    IF c <= 127 THEN 1
    ELSE IF c <= 2047 THEN 2
    ELSE IF c >= 55296 /\ c <= 57343 THEN -1
    ELSE IF c <= 65535 THEN 3
    ELSE IF c <= 1114111 THEN 4
    ELSE -1

\* utf8.EncodeRune for a valid rune
EncodeRune(c) ==
    IF c <= 127 THEN <<c>>
    ELSE IF c <= 2047 THEN <<192 + (c \div 64), 128 + (c % 64)>>
    ELSE IF c <= 65535 THEN <<224 + (c \div 4096), 128 + ((c \div 64) % 64), 128 + (c % 64)>>
    ELSE <<240 + (c \div 262144), 128 + ((c \div 4096) % 64),
           128 + ((c \div 64) % 64), 128 + (c % 64)>>

-----------------------------------------------------------------------------
(* The decoder.  d.run() is a goroutine that sends every token on the      *)
(* unbuffered channel d.tokChan: tokChan holds the tokens of the sends the *)
(* producer has reached, and the producer goes on only when Token() has    *)
(* received them all.  Each action is one iteration of a loop of the       *)
(* source; it is enabled when the bytes it reads are on the stream, or the *)
(* stream has ended.                                                       *)

NoElt == [tag |-> 0, Name |-> "", Attr |-> <<>>, aname |-> <<>>, val |-> NilData]
NilTok == [type |-> "nil"]

DecoderInit == [tagPage |-> 0, attrPage |-> 0, offset |-> 0, err |-> "nil", Header |-> NoHeader]

ExtTokens == {gloExt0, gloExt1, gloExt2, gloExtI0, gloExtI1, gloExtI2,
              gloExtT0, gloExtT1, gloExtT2}

\* the function that called element(): body() for the root, else content()
Caller(stk) == IF stk = <<>> THEN "bodyPost" ELSE "content"

\* d.panicErr(err) with err # nil, seen from run(): the deferred function stores io.EOF
\* and closes the channel; any other error is raised again and ends the process
Panic(st, pos) ==
    /\ d' = [d EXCEPT !.offset = pos, !.err = IF st = "eof" THEN "EOF" ELSE @]
    /\ pc' = IF st = "eof" THEN "closed" ELSE "crashed"
    /\ UNCHANGED <<stack, elt, b, tokChan, delivered, ret>>

\* the slip of an earlier revision: a nil buffer is replaced by an empty one
InitCharDataEmpty(cdata) == [nil |-> FALSE, data |-> cdata.data]

\* charData: "if cdata == nil" tests the pointer, which is never nil
InitCharData(cdata) == cdata

\* a plausible slip: an ENTITY is always delivered as a token of its own
EntityFoldedNever(cdata) == FALSE

\* charData: the ENTITY is folded into the pending bytes when there are some
EntityFolded(cdata) == Len(cdata.data) > 0

\* Decoder.charData(cdata, bb): the buffer afterwards and the token sent
charData(cdata, bb, pos) ==
    LET c0 == InitCharData(cdata)
        Res(st, c, send, p) == [st |-> st, cdata |-> c, send |-> send, pos |-> p]
    IN CASE bb = gloStrI ->
              LET r == readString(pos)
              IN IF r.st # "ok" THEN Res(r.st, c0, <<>>, r.pos)
                 ELSE Res("ok", Append2(c0, r.val), <<>>, r.pos)
         [] bb = gloStrT ->
              LET r == mbUint32(pos)
                  g == GetString(d.Header.StringTable, r.val)
              IN IF r.st # "ok" THEN Res(r.st, c0, <<>>, r.pos)
                 ELSE IF g.st # "ok" THEN Res("err", c0, <<>>, r.pos)
                 ELSE Res("ok", Append2(c0, g.val), <<>>, r.pos)
         [] bb = gloEntity ->
              LET r == mbUint32(pos)
              IN IF r.st # "ok" THEN Res(r.st, c0, <<>>, r.pos)
                 ELSE IF EntityFolded(c0)
                 THEN \* buf[:rlen] with rlen = -1 is a run-time panic
                      IF RuneLen(r.val) < 0 THEN Res("err", c0, <<>>, r.pos)
                      ELSE Res("ok", Append2(c0, EncodeRune(r.val)), <<>>, r.pos)
                 ELSE Res("ok", c0, <<Entity(r.val)>>, r.pos)
         [] OTHER -> Res("err", c0, <<>>, pos)

\* Decoder.sendCharData: the token sent for the pending buffer, if any
sendCharData(cdata) == IF ~cdata.nil THEN <<CharData(cdata.data)>> ELSE <<>>

\* NewDecoder: go d.run()
NewDecoder ==
    /\ pc = "new"
    /\ pc' = "run"
    /\ UNCHANGED <<d, stack, elt, b, tokChan, delivered, ret>>
    /\ UNCHANGED <<streamVars, encVars, mb, dropped, bind, tab, tagByte>>

\* a plausible slip: run() goes on to body() without storing the header it read
DecHeaderUnset ==
    /\ pc = "run"
    /\ LET r == readHeader(d.offset)
       IN /\ r.st # "more"
          /\ IF r.st = "ok"
             THEN /\ d' = [d EXCEPT !.offset = r.pos]
                  /\ pc' = "body"
                  /\ UNCHANGED <<stack, elt, b, tokChan, delivered, ret>>
             ELSE Panic(r.st, r.pos)
    /\ UNCHANGED <<streamVars, encVars, mb, dropped, bind, tab, tagByte>>

\* run(): readHeader, then body()
DecHeader ==
    /\ pc = "run"
    /\ LET r == readHeader(d.offset)
       IN /\ r.st # "more"
          /\ IF r.st = "ok"
             THEN /\ d' = [d EXCEPT !.offset = r.pos, !.Header = r.h]
                  /\ pc' = "body"
                  /\ UNCHANGED <<stack, elt, b, tokChan, delivered, ret>>
             ELSE Panic(r.st, r.pos)
    /\ UNCHANGED <<streamVars, encVars, mb, dropped, bind, tab, tagByte>>

\* body(): one iteration of the loop before the root element
DecBody ==
    /\ pc = "body"
    /\ LET r == readByte(d.offset)
       IN /\ r.st # "more"
          /\ IF r.st # "ok" THEN Panic(r.st, r.pos)
             ELSE /\ d' = [d EXCEPT !.offset = r.pos]
                  \* piStar() does nothing: the loop reads the next byte
                  /\ pc' = IF r.val = gloPi THEN "body" ELSE "element"
                  /\ elt' = IF r.val = gloPi THEN elt ELSE [NoElt EXCEPT !.tag = r.val]
                  /\ UNCHANGED <<stack, b, tokChan, delivered, ret>>
    /\ UNCHANGED <<streamVars, encVars, mb, dropped, bind, tab, tagByte>>

\* a plausible slip: the end tag carries no name
EndOfNoName(name) == EndElement("")

\* element(): the EndElement that closes the element called name
EndOf(name) == EndElement(name)

\* element(): the sends that follow the attribute list, and content() if the tag has content
StartSent(tok, content) ==
    /\ tokChan' = IF content THEN <<tok>> ELSE <<tok, EndOf(tok.Name)>>
    /\ stack' = IF content THEN Append(stack, [name |-> tok.Name, cdata |-> NilData]) ELSE stack
    /\ pc' = IF content THEN "content" ELSE Caller(stack)

\* element(b)
DecElement ==
    /\ pc = "element"
    /\ tokChan = <<>>
    /\ CASE elt.tag = gloSwitchPage ->
              LET r == readByte(d.offset)
              IN /\ r.st # "more"
                 /\ IF r.st # "ok" THEN Panic(r.st, r.pos)
                    ELSE /\ d' = [d EXCEPT !.offset = r.pos, !.tagPage = r.val]
                         /\ pc' = Caller(stack)
                         /\ UNCHANGED <<stack, elt, b, tokChan, delivered, ret>>
         [] elt.tag \in {gloLiteral, gloLiteralA, gloLiteralC, gloLiteralAC} ->
              Panic("err", d.offset)
         [] OTHER ->
              LET n == Name(tagSpace, d.tagPage, TagID(elt.tag))
              IN IF n.st # "ok" THEN Panic("err", d.offset)
                 ELSE IF TagAttr(elt.tag)
                 THEN /\ elt' = [elt EXCEPT !.Name = n.val]
                      /\ pc' = "attrFirst"
                      /\ UNCHANGED <<d, stack, b, tokChan, delivered, ret>>
                 ELSE /\ StartSent(StartElement(n.val, <<>>, FALSE), TagContent(elt.tag))
                      /\ UNCHANGED <<d, elt, b, delivered, ret>>
    /\ UNCHANGED <<streamVars, encVars, mb, dropped, bind, tab, tagByte>>

\* attributes(): the first byte of the list
DecAttrFirst ==
    /\ pc = "attrFirst"
    /\ LET r == readByte(d.offset)
       IN /\ r.st # "more"
          /\ IF r.st # "ok" THEN Panic(r.st, r.pos)
             ELSE /\ d' = [d EXCEPT !.offset = r.pos]
                  /\ b' = r.val
                  /\ pc' = "attrs"
                  /\ UNCHANGED <<stack, elt, tokChan, delivered, ret>>
    /\ UNCHANGED <<streamVars, encVars, mb, dropped, bind, tab, tagByte>>

\* attributes(): one iteration of the loop, which switches on b
DecAttrs ==
    /\ pc = "attrs"
    /\ CASE b = gloSwitchPage ->
              \* the page is read and b stays gloSwitchPage
              LET r == readByte(d.offset)
              IN /\ r.st # "more"
                 /\ IF r.st # "ok" THEN Panic(r.st, r.pos)
                    ELSE /\ d' = [d EXCEPT !.offset = r.pos, !.attrPage = r.val]
                         /\ UNCHANGED <<pc, stack, elt, b, tokChan, delivered, ret>>
         [] b = gloLiteral ->
              LET r == mbUint32(d.offset)
                  g == GetString(d.Header.StringTable, r.val)
              IN /\ r.st # "more"
                 /\ IF r.st # "ok" THEN Panic(r.st, r.pos)
                    ELSE IF g.st # "ok" THEN Panic("err", r.pos)
                    ELSE /\ d' = [d EXCEPT !.offset = r.pos]
                         /\ elt' = [elt EXCEPT !.aname = g.val, !.val = NilData]
                         /\ pc' = "attrValue"
                         /\ UNCHANGED <<stack, b, tokChan, delivered, ret>>
         [] b = gloEnd ->
              /\ StartSent(StartElement(elt.Name, elt.Attr, FALSE), TagContent(elt.tag))
              /\ UNCHANGED <<d, elt, b, delivered, ret>>
         [] OTHER ->
              LET n == Name(attrSpace, d.attrPage, b)
              IN IF b >= 128 \/ n.st # "ok" THEN Panic("err", d.offset)
                 ELSE /\ elt' = [elt EXCEPT !.aname = n.val, !.val = NilData]
                      /\ pc' = "attrValue"
                      /\ UNCHANGED <<d, stack, b, tokChan, delivered, ret>>
    /\ UNCHANGED <<streamVars, encVars, mb, dropped, bind, tab, tagByte>>

\* readAttrValue(): one iteration of the loop; the value ends at END or at a byte below 128
DecAttrValue ==
    /\ pc = "attrValue"
    /\ tokChan = <<>>
    /\ LET r == readByte(d.offset)
       IN /\ r.st # "more"
          /\ IF r.st # "ok" THEN Panic(r.st, r.pos)
             ELSE CASE r.val \in {gloStrI, gloStrT, gloEntity} ->
                       LET c == charData(elt.val, r.val, r.pos)
                       IN /\ c.st # "more"
                          /\ IF c.st # "ok" THEN Panic(c.st, c.pos)
                             ELSE /\ d' = [d EXCEPT !.offset = c.pos]
                                  /\ elt' = [elt EXCEPT !.val = c.cdata]
                                  /\ tokChan' = c.send
                                  /\ UNCHANGED <<pc, stack, b, delivered, ret>>
                    [] r.val \in ExtTokens -> Panic("err", r.pos)
                    [] r.val = gloEnd \/ (r.val \notin ExtTokens /\ r.val < 128
                                          /\ r.val \notin {gloStrI, gloEntity}) ->
                       /\ d' = [d EXCEPT !.offset = r.pos]
                       /\ elt' = [elt EXCEPT !.Attr = Append(@, Attr(elt.aname, elt.val.data)),
                                             !.val = NilData]
                       /\ b' = r.val
                       /\ pc' = "attrs"
                       /\ UNCHANGED <<stack, tokChan, delivered, ret>>
                    [] OTHER ->
                       LET n == Name(attrSpace, d.attrPage, r.val)
                       IN IF n.st # "ok" THEN Panic("err", r.pos)
                          ELSE /\ d' = [d EXCEPT !.offset = r.pos]
                               /\ elt' = [elt EXCEPT !.val = Append2(@, n.val)]
                               /\ UNCHANGED <<pc, stack, b, tokChan, delivered, ret>>
    /\ UNCHANGED <<streamVars, encVars, mb, dropped, bind, tab, tagByte>>

\* content(): one iteration of the loop
DecContent ==
    /\ pc = "content"
    /\ tokChan = <<>>
    /\ LET top == stack[Len(stack)]
           rest == SubSeq(stack, 1, Len(stack) - 1)
           r == readByte(d.offset)
       IN /\ r.st # "more"
          /\ IF r.st # "ok" THEN Panic(r.st, r.pos)
             ELSE CASE r.val \in {gloStrI, gloStrT, gloEntity} ->
                       LET c == charData(top.cdata, r.val, r.pos)
                       IN /\ c.st # "more"
                          /\ IF c.st # "ok" THEN Panic(c.st, c.pos)
                             ELSE /\ d' = [d EXCEPT !.offset = c.pos]
                                  /\ stack' = Append(rest, [top EXCEPT !.cdata = c.cdata])
                                  /\ tokChan' = c.send
                                  /\ UNCHANGED <<pc, elt, b, delivered, ret>>
                    [] r.val = gloOpaque ->
                       /\ d' = [d EXCEPT !.offset = r.pos]
                       /\ tokChan' = sendCharData(top.cdata)
                       /\ stack' = Append(rest, [top EXCEPT !.cdata = NilData])
                       /\ pc' = "opaque"
                       /\ UNCHANGED <<elt, b, delivered, ret>>
                    [] r.val \in ExtTokens -> Panic("err", r.pos)
                    [] r.val = gloEnd ->
                       \* content() returns and element() sends the EndElement
                       /\ d' = [d EXCEPT !.offset = r.pos]
                       /\ tokChan' = sendCharData(top.cdata) \o <<EndOf(top.name)>>
                       /\ stack' = rest
                       /\ pc' = Caller(rest)
                       /\ UNCHANGED <<elt, b, delivered, ret>>
                    [] OTHER ->
                       /\ d' = [d EXCEPT !.offset = r.pos]
                       /\ tokChan' = sendCharData(top.cdata)
                       /\ stack' = Append(rest, [top EXCEPT !.cdata = NilData])
                       /\ elt' = [NoElt EXCEPT !.tag = r.val]
                       /\ pc' = "element"
                       /\ UNCHANGED <<b, delivered, ret>>
    /\ UNCHANGED <<streamVars, encVars, mb, dropped, bind, tab, tagByte>>

\* content(), case gloOpaque, after the pending CharData is sent
DecOpaque ==
    /\ pc = "opaque"
    /\ tokChan = <<>>
    /\ LET l == mbUint32(d.offset)
           s == readSlice(l.pos, l.val)
       IN /\ l.st # "more"
          /\ IF l.st # "ok" THEN Panic(l.st, l.pos)
             ELSE /\ s.st # "more"
                  /\ IF s.st # "ok" THEN Panic(s.st, s.pos)
                     ELSE /\ d' = [d EXCEPT !.offset = s.pos]
                          /\ tokChan' = <<Opaque(s.val)>>
                          /\ pc' = "content"
                          /\ UNCHANGED <<stack, elt, b, delivered, ret>>
    /\ UNCHANGED <<streamVars, encVars, mb, dropped, bind, tab, tagByte>>

\* body(): one iteration of the loop after the root element, then close(d.tokChan)
DecBodyPost ==
    /\ pc = "bodyPost"
    /\ tokChan = <<>>
    /\ LET r == readByte(d.offset)
       IN /\ r.st # "more"
          /\ IF r.st # "ok" THEN Panic(r.st, r.pos)
             ELSE /\ d' = [d EXCEPT !.offset = r.pos]
                  /\ pc' = IF r.val = gloPi THEN "bodyPost" ELSE "closed"
                  /\ UNCHANGED <<stack, elt, b, tokChan, delivered, ret>>
    /\ UNCHANGED <<streamVars, encVars, mb, dropped, bind, tab, tagByte>>

\* Decoder.Token: receive from d.tokChan; a closed channel yields nil and d.err
Token ==
    /\ pc # "new"
    /\ \/ /\ tokChan # <<>>
          /\ delivered' = Append(delivered, Head(tokChan))
          /\ tokChan' = Tail(tokChan)
          /\ ret' = [tok |-> Head(tokChan), err |-> "nil"]
       \/ /\ tokChan = <<>>
          /\ pc = "closed"
          /\ ret' = [tok |-> NilTok, err |-> d.err]
          /\ UNCHANGED <<tokChan, delivered>>
    /\ UNCHANGED <<d, pc, stack, elt, b>>
    /\ UNCHANGED <<streamVars, encVars, mb, dropped, bind, tab, tagByte>>

-----------------------------------------------------------------------------
(* The encoder.  An operation takes and returns a record r: the encoder e, *)
(* the bytes out written to e.w so far in the call, and the error err the  *)
(* call is returning ("nil" for none).  The statements after an error are  *)
(* skipped.  The writer e.w is a buffer, no write of which fails, or a      *)
(* writer whose failAt-th Write returns an error and writes nothing, as do  *)
(* the Writes after it when the error is sticky; n counts the Writes made   *)
(* to such a writer.                                                       *)

\* a bytes.Buffer
Buffer == [n |-> 0, failAt |-> 0, sticky |-> FALSE]

\* NewEncoder
EncoderInit == [tagPage |-> 0, attrPage |-> 0, ignoreEnd |-> <<>>, Header |-> NoHeader,
                w |-> Buffer]

Call(e0) == [e |-> e0, out |-> <<>>, err |-> "nil"]
Fail(r, msg) == IF r.err # "nil" THEN r ELSE [r EXCEPT !.err = msg]

\* e.w.Write(buf)
Write(r, buf) ==
    IF r.err # "nil" THEN r
    ELSE IF r.e.w.failAt = 0 THEN [r EXCEPT !.out = @ \o buf]
    ELSE IF r.e.w.n + 1 = r.e.w.failAt \/ (r.e.w.sticky /\ r.e.w.n + 1 > r.e.w.failAt)
    THEN [r EXCEPT !.e.w.n = @ + 1, !.err = "write error"]
    ELSE [r EXCEPT !.e.w.n = @ + 1, !.out = @ \o buf]

writeByte(r, x) == Write(r, <<x>>)
writeSlice(r, buf) == Write(r, buf)

RECURSIVE writeString(_, _)
\* writeString(e, str): the bytes, one Write each, and a NUL
writeString(r, str) ==
    IF str = <<>> THEN writeByte(r, 0) ELSE writeString(writeByte(r, Head(str)), Tail(str))

\* writeMbUint32(e, uint32(n)) into the call r
WriteMb32(r, n) ==
    LET w == writeMbUint32(FromInt(n))
    IN IF w.err THEN Fail(r, "too big") ELSE writeSlice(r, w.out)

\* writeOpaque(e, buf)
writeOpaque(r, buf) == writeSlice(WriteMb32(writeByte(r, gloOpaque), Len(buf)), buf)

RECURSIVE GetIndexLoop(_, _, _, _)
\* the loop of GetIndex; start and end count from 1
GetIndexLoop(table, str, start, end) ==
    IF end > Len(table) THEN [ok |-> FALSE, index |-> 0]
    ELSE IF table[end] = 0
    THEN IF SubSeq(table, start, end - 1) = str
         THEN [ok |-> TRUE, index |-> start - 1]
         ELSE GetIndexLoop(table, str, end + 1, end + 1)
    ELSE GetIndexLoop(table, str, start, end + 1)

\* a plausible slip: the offset returned is the end of the slot, not its start
GetIndexEnd(table, str) ==
    LET g == GetIndexLoop(table, str, 1, 1)
    IN IF g.ok THEN [g EXCEPT !.index = @ + Len(str)] ELSE g

\* Encoder.GetIndex(str)
GetIndex(table, str) == GetIndexLoop(table, str, 1, 1)

\* the orders in which a range over a code space may visit its pages
PageOrders == {<<0, 1>>, <<1, 0>>}

\* findCodePage(space, tag), the pages visited in the order ord
findCodePage(space, tag, ord) ==
    LET hits(page) == {code \in DOMAIN space[page] : space[page][code] = tag}
        pages == SelectSeq(ord, LAMBDA q : q \in DOMAIN space /\ hits(q) # {})
    IN IF pages = <<>> THEN [err |-> TRUE, code |-> 0, page |-> 0]
       ELSE [err |-> FALSE, code |-> CHOOSE c \in hits(pages[1]) : TRUE, page |-> pages[1]]

\* Encoder.switchTagPage(p)
switchTagPage(r, page) ==
    IF r.err # "nil" \/ page = r.e.tagPage THEN r
    ELSE writeByte(writeByte([r EXCEPT !.e.tagPage = page], gloSwitchPage), page)

\* Encoder.switchAttrPage(p)
switchAttrPage(r, page) ==
    IF r.err # "nil" \/ page = r.e.attrPage THEN r
    ELSE writeByte(writeByte([r EXCEPT !.e.attrPage = page], gloSwitchPage), page)

\* Encoder.writeString(cdata)
EncoderWriteString(r, cdata) ==
    LET g == GetIndex(r.e.Header.StringTable, cdata)
    IN IF r.err # "nil" THEN r
       ELSE IF g.ok THEN WriteMb32(writeByte(r, gloStrT), g.index)
       ELSE IF cdata = <<>> THEN r
       ELSE writeString(writeByte(r, gloStrI), cdata)

\* Encoder.writeEntity(tok)
writeEntity(r, code) == WriteMb32(writeByte(r, gloEntity), code)

RECURSIVE EncodeAttrsLoop(_, _, _)
\* the loop of encodeAttrs and its closing END; the error of writing a value as a
\* string is dropped
EncodeAttrsLoop(r, attrs, ord) ==
    IF r.err # "nil" THEN r
    ELSE IF attrs = <<>> THEN writeByte(r, gloEnd)
    ELSE LET attr == Head(attrs)
             n == findCodePage(attrSpace, attr.Name, ord)
             v == findCodePage(attrSpace, attr.Value, ord)
             r1 == writeByte(switchTagPage(r, n.page), n.code)
             r2 == IF ~v.err THEN writeByte(switchTagPage(r1, v.page), v.code)
                   ELSE IF r1.err # "nil" THEN r1
                   ELSE [EncoderWriteString(r1, attr.Value) EXCEPT !.err = "nil"]
         IN IF n.err THEN Fail(r, "unknown tag")
            ELSE EncodeAttrsLoop(r2, Tail(attrs), ord)

\* Encoder.encodeAttrs(attrs)
encodeAttrs(r, attrs, ord) == IF attrs = <<>> THEN r ELSE EncodeAttrsLoop(r, attrs, ord)

\* encodeTag: finalCode, the tag byte composed from the code and the token
FinalCode(code, tok) ==
    LET c1 == IF Len(tok.Attr) # 0 THEN OrBit(code, tagAttrMask) ELSE code
    IN IF tok.Content THEN OrBit(c1, tagContentMask) ELSE c1

\* a plausible slip: the name is remembered before it is looked up
EncodeTagPushFirst(r, tok, ord) ==
    LET t == findCodePage(tagSpace, tok.Name, ord)
        r0 == IF tok.Content THEN r ELSE [r EXCEPT !.e.ignoreEnd = Append(@, tok.Name)]
    IN IF t.err THEN Fail(r0, "unknown tag")
       ELSE encodeAttrs(writeByte(switchTagPage(r0, t.page), FinalCode(t.code, tok)),
                        tok.Attr, ord)

\* Encoder.encodeTag(tok)
encodeTag(r, tok, ord) ==
    LET t == findCodePage(tagSpace, tok.Name, ord)
        r1 == switchTagPage(r, t.page)
        finalCode == FinalCode(t.code, tok)
        r2 == IF tok.Content \/ r1.err # "nil" THEN r1
              ELSE [r1 EXCEPT !.e.ignoreEnd = Append(@, tok.Name)]
    IN IF t.err THEN Fail(r, "unknown tag")
       ELSE encodeAttrs(writeByte(r2, finalCode), tok.Attr, ord)

\* a plausible slip: the END is written for every EndElement
EncodeEndAlways(r, tok, ord) ==
    LET t == findCodePage(tagSpace, tok.Name, ord)
    IN IF t.err THEN Fail(r, "unknown tag")
       ELSE switchTagPage(writeByte(r, gloEnd), t.page)

\* Encoder.encodeEnd(tok)
encodeEnd(r, tok, ord) ==
    LET ilen == Len(r.e.ignoreEnd)
        t == findCodePage(tagSpace, tok.Name, ord)
    IN IF ilen > 0 /\ tok.Name = r.e.ignoreEnd[ilen]
       THEN [r EXCEPT !.e.ignoreEnd = SubSeq(@, 1, ilen - 1)]
       ELSE IF t.err THEN Fail(r, "unknown tag")
       ELSE switchTagPage(writeByte(r, gloEnd), t.page)

\* EncodeToken(tok) as a function of the encoder
EncodeTokenCall(e0, tok, ord) ==
    CASE tok.type = "StartElement" -> encodeTag(Call(e0), tok, ord)
      [] tok.type = "EndElement" -> encodeEnd(Call(e0), tok, ord)
      [] tok.type = "ProcInst" -> Fail(Call(e0), "not implemented")
      [] tok.type = "CharData" -> EncoderWriteString(Call(e0), tok.data)
      [] tok.type = "Opaque" -> writeOpaque(Call(e0), tok.data)
      [] tok.type = "Entity" -> writeEntity(Call(e0), tok.code)
      [] OTHER -> Fail(Call(e0), "unknown token")

\* EncodeHeader(h) as a function of the encoder
EncodeHeaderCall(e0, h) ==
    LET r1 == WriteMb32(writeByte(Call([e0 EXCEPT !.Header = h]), h.Version), h.PublicID)
        r2 == IF h.PublicID = 0 THEN WriteMb32(r1, h.PublicID) ELSE r1
    IN writeSlice(WriteMb32(WriteMb32(r2, h.Charset), Len(h.StringTable)), h.StringTable)

-----------------------------------------------------------------------------
(* The decoder over an arbitrary stream: the reader hands out the document *)
(* chunk by chunk, each time the producer waits for bytes, and may end the *)
(* stream at any such point.                                               *)

MaxFeeds == 5

\* the header of the documents: version 1, public id 1, charset 3 and the string table "E\0"
HeaderInputs == {<<1, 1, 3, 2, 69, 0>>}

\* the pieces the documents are made of
Chunks == {
    <<69>>,          \* tag A with content (and the letter E)
    <<5>>,           \* tag A without content; attribute start x
    <<6>>,           \* tag B without content
    <<197>>,         \* tag A with attributes and content
    <<1>>,           \* END (and page 1)
    <<3, 69, 0>>,    \* STR_I "E"
    <<3, 0>>,        \* STR_I ""
    <<2, 129, 32>>,  \* ENTITY 160
    <<2, 131, 176, 0>>,  \* ENTITY 55296 (0xD800, a surrogate)
    <<131, 0>>,      \* STR_T 0, the string "E"
    <<131, 1>>,      \* STR_T 1, the empty string
    <<0, 1>>,        \* SWITCH_PAGE 1
    <<133>>,         \* attribute value v
    <<195, 1, 69>>,  \* OPAQUE of one byte
    <<67>>           \* PI
}

MbIdle == [st |-> "idle", v |-> U64Zero, max |-> 0, err |-> FALSE, out |-> <<>>,
           rst |-> "none", rv |-> U64Zero]

BindIdle == [st |-> "idle"]

TabIdle == [st |-> "off"]

TagIdle == [st |-> "off"]

\* the producer is inside a read that has not returned: the stream holds too few
\* bytes for the step the producer is at, and has not ended
Waiting ==
    LET r == readByte(d.offset)
        l == mbUint32(d.offset)
    IN /\ tokChan = <<>>
       /\ CASE pc = "run" -> readHeader(d.offset).st = "more"
            [] pc \in {"body", "attrFirst", "bodyPost"} -> r.st = "more"
            [] pc = "element" -> elt.tag = gloSwitchPage /\ r.st = "more"
            [] pc = "attrs" -> \/ b = gloSwitchPage /\ r.st = "more"
                               \/ b = gloLiteral /\ l.st = "more"
            [] pc \in {"attrValue", "content"} ->
                 \/ r.st = "more"
                 \/ /\ r.st = "ok"
                    /\ r.val \in {gloStrI, gloStrT, gloEntity}
                    /\ charData(NilData, r.val, r.pos).st = "more"
            [] pc = "opaque" -> \/ l.st = "more"
                                \/ l.st = "ok" /\ readSlice(l.pos, l.val).st = "more"
            [] OTHER -> FALSE

\* the reader returns the next bytes of the document
Feed ==
    /\ Waiting /\ ~eof /\ fed < MaxFeeds
    /\ \E c \in Chunks : input' = input \o c
    /\ fed' = fed + 1
    /\ UNCHANGED <<eof, encVars, decVars, mb, dropped, bind, tab, tagByte>>

\* the document ends here: the reads from now on return io.EOF
CloseInput ==
    /\ Waiting /\ ~eof
    /\ eof' = TRUE
    /\ UNCHANGED <<input, fed, encVars, decVars, mb, dropped, bind, tab, tagByte>>

Init ==
    /\ input \in HeaderInputs /\ eof = FALSE /\ fed = 0
    /\ e = EncoderInit /\ T = <<>> /\ eret = "none"
    /\ d = DecoderInit /\ pc = "new" /\ stack = <<>> /\ elt = NoElt /\ b = 0
    /\ tokChan = <<>> /\ delivered = <<>> /\ ret = [tok |-> NilTok, err |-> "none"]
    /\ mb = MbIdle /\ dropped = FALSE /\ bind = BindIdle /\ tab = TabIdle /\ tagByte = TagIdle

Next ==
    \/ NewDecoder \/ Feed \/ CloseInput
    \/ DecHeader \/ DecBody \/ DecElement \/ DecAttrFirst \/ DecAttrs
    \/ DecAttrValue \/ DecContent \/ DecOpaque \/ DecBodyPost
    \/ Token

Spec == Init /\ [][Next]_vars

-----------------------------------------------------------------------------
(* Specification SpecDrop: the decoder of Spec with a consumer that may    *)
(* stop calling Token for good.  The producer goroutine runs whenever it   *)
(* can, and a read of the stream returns bytes or io.EOF in the end.       *)

\* one step of the goroutine d.run()
Producer ==
    \/ DecHeader \/ DecBody \/ DecElement \/ DecAttrFirst \/ DecAttrs
    \/ DecAttrValue \/ DecContent \/ DecOpaque \/ DecBodyPost

\* the consumer makes its last use of the decoder: no call of Token follows.  The
\* Decoder has no Close or Stop and NewDecoder takes no context
Drop ==
    /\ pc # "new" /\ ~dropped
    /\ dropped' = TRUE
    /\ UNCHANGED <<streamVars, encVars, decVars, mb, bind, tab, tagByte>>

\* a call of Token by a consumer that still holds the decoder
TokenCall == ~dropped /\ Token

NextDrop ==
    \/ NewDecoder \/ Feed \/ CloseInput
    \/ Producer
    \/ TokenCall \/ Drop

\* the goroutine runs whenever it can and the stream answers every read that waits.
\* The stream holds a whole header from the start, so the step out of "run" is always
\* possible: its fairness is stated on pc
SpecDrop ==
    /\ Init /\ [][NextDrop]_vars
    /\ []<>(pc # "run")
    /\ WF_vars(pc # "run" /\ Producer)
    /\ WF_vars(pc # "run" /\ (Feed \/ CloseInput))

-----------------------------------------------------------------------------
(* Specification SpecMb: writeMbUint is applied to a 64-bit value and a    *)
(* width, and mbUint reads back the bytes it wrote.                        *)

\* the values under test have the digits 0 and 127, and the digit 1 at no more than
\* MaxOnes places
MaxOnes == 1
\* const M = 8, the length of the buffer of writeMbUint
M == 8

MbValues ==
    {v \in [1..Limbs -> {0, 1, 127}] :
        /\ v[Limbs] \in {0, 1}
        /\ Cardinality({i \in 1..(Limbs - 1) : v[i] = 1}) <= MaxOnes}

InitMb ==
    /\ input = <<>> /\ eof = FALSE /\ fed = 0
    /\ e = EncoderInit /\ T = <<>> /\ eret = "none"
    /\ d = DecoderInit /\ pc = "new" /\ stack = <<>> /\ elt = NoElt /\ b = 0
    /\ tokChan = <<>> /\ delivered = <<>> /\ ret = [tok |-> NilTok, err |-> "none"]
    /\ \E v \in MbValues, max \in 1..M : mb = [MbIdle EXCEPT !.v = v, !.max = max]
    /\ dropped = FALSE /\ bind = BindIdle /\ tab = TabIdle /\ tagByte = TagIdle

\* writeMbUint(e, v, max) on an encoder whose writer is the stream
MbWrite ==
    /\ mb.st = "idle"
    /\ LET w == writeMbUint(mb.v, mb.max)
       IN /\ mb' = [mb EXCEPT !.st = "written", !.err = w.err, !.out = w.out]
          /\ input' = input \o w.out
    /\ eof' = TRUE
    /\ UNCHANGED <<fed, encVars, decVars, dropped, bind, tab, tagByte>>

\* mbUint(d, max) on a decoder whose reader is the bytes written
MbRead ==
    /\ mb.st \in {"written", "written32"} /\ ~mb.err
    /\ LET r == mbUint(0, mb.max)
       IN mb' = [mb EXCEPT !.st = "read", !.rst = r.st, !.rv = r.val]
    /\ UNCHANGED <<streamVars, encVars, decVars, dropped, bind, tab, tagByte>>

\* writeMbUint32(e, v) for a value of 32 bits
MbWrite32 ==
    /\ mb.st = "idle" /\ mb.max = 4
    /\ \A i \in 6..Limbs : mb.v[i] = 0
    /\ mb.v[5] < 16
    /\ LET w == writeMbUint32(mb.v)
       IN /\ mb' = [mb EXCEPT !.st = "written32", !.err = w.err, !.out = w.out]
          /\ input' = input \o w.out
    /\ eof' = TRUE
    /\ UNCHANGED <<fed, encVars, decVars, dropped, bind, tab, tagByte>>

NextMb == MbWrite \/ MbWrite32 \/ MbRead

SpecMb == InitMb /\ [][NextMb]_vars

-----------------------------------------------------------------------------
(* Specification SpecEnc: a header and a sequence of tokens that forms one *)
(* element tree are encoded into a buffer, and the buffer is then decoded. *)
(* T records each EncodeToken call: the token, the bytes it wrote, the     *)
(* error it returned and the encoder before and after it.                  *)

MaxTokens == 5

HeaderValues == {Header(1, 1, 3, <<69, 0>>), Header(1, 0, 3, <<>>)}

StartTokens == {
    StartElement("A", <<>>, TRUE),
    StartElement("A", <<>>, FALSE),
    StartElement("B", <<>>, FALSE),
    StartElement("C", <<>>, TRUE),
    StartElement("C", <<>>, FALSE),
    StartElement("A", <<Attr(<<120>>, <<118>>)>>, TRUE),
    StartElement("A", <<Attr(<<121>>, <<69>>)>>, FALSE),
    StartElement("Z", <<>>, FALSE)
}

ContentTokens == {CharData(<<69>>), CharData(<<70>>), Entity(160), Opaque(<<69>>), ProcInst}

Toks(seq) == [i \in 1..Len(seq) |-> seq[i].tok]

RECURSIVE OpenElems(_, _)
\* the StartElements that the tokens seq leave open, innermost last
OpenElems(seq, open) ==
    IF seq = <<>> THEN open
    ELSE LET t == Head(seq)
         IN IF t.type = "StartElement" THEN OpenElems(Tail(seq), Append(open, t))
            ELSE IF t.type = "EndElement"
            THEN OpenElems(Tail(seq), SubSeq(open, 1, Len(open) - 1))
            ELSE OpenElems(Tail(seq), open)

\* the tokens that may follow seq in one well-nested element tree
NextTokens(seq) ==
    LET open == OpenElems(seq, <<>>)
        top == open[Len(open)]
    IN IF seq = <<>> THEN StartTokens
       ELSE IF open = <<>> THEN {}
       ELSE IF ~top.Content THEN {EndElement(top.Name)}
       ELSE StartTokens \cup ContentTokens \cup {EndElement(top.Name)}

InitEnc ==
    /\ input = <<>> /\ eof = FALSE /\ fed = 0
    /\ e = EncoderInit /\ T = <<>> /\ eret = "none"
    /\ d = DecoderInit /\ pc = "new" /\ stack = <<>> /\ elt = NoElt /\ b = 0
    /\ tokChan = <<>> /\ delivered = <<>> /\ ret = [tok |-> NilTok, err |-> "none"]
    /\ mb = MbIdle /\ dropped = FALSE /\ bind = BindIdle /\ tab = TabIdle /\ tagByte = TagIdle

\* Encoder.EncodeHeader(h)
EncodeHeader ==
    /\ eret = "none"
    /\ \E h \in HeaderValues :
          LET r == EncodeHeaderCall(e, h)
          IN /\ e' = r.e
             /\ input' = input \o r.out
             /\ eret' = r.err
    /\ UNCHANGED <<eof, fed, T, decVars, mb, dropped, bind, tab, tagByte>>

\* Encoder.EncodeToken(tok)
EncodeToken ==
    /\ eret # "none" /\ ~eof /\ Len(T) < MaxTokens
    /\ \E tok \in NextTokens(Toks(T)), ord \in PageOrders :
          LET r == EncodeTokenCall(e, tok, ord)
          IN /\ e' = r.e
             /\ input' = input \o r.out
             /\ eret' = r.err
             /\ T' = Append(T, [tok |-> tok, out |-> r.out, err |-> r.err,
                                pre |-> e, post |-> r.e])
    /\ UNCHANGED <<eof, fed, decVars, mb, dropped, bind, tab, tagByte>>

\* the tree is complete: the buffer is handed to the decoder as its reader
Finish ==
    /\ ~eof /\ T # <<>> /\ OpenElems(Toks(T), <<>>) = <<>>
    /\ eof' = TRUE
    /\ UNCHANGED <<input, fed, encVars, decVars, mb, dropped, bind, tab, tagByte>>

\* NewDecoder over the bytes written
DecodeWritten == eof /\ NewDecoder

NextEnc ==
    \/ EncodeHeader \/ EncodeToken \/ Finish \/ DecodeWritten
    \/ DecHeader \/ DecBody \/ DecElement \/ DecAttrFirst \/ DecAttrs
    \/ DecAttrValue \/ DecContent \/ DecOpaque \/ DecBodyPost
    \/ Token

SpecEnc == InitEnc /\ [][NextEnc]_vars

-----------------------------------------------------------------------------
(* Specification SpecWr: the header and tokens are encoded to a writer one *)
(* Write of which fails.                                                   *)

MaxWrites == 14
MaxWrTokens == 2

InitWr ==
    /\ input = <<>> /\ eof = FALSE /\ fed = 0
    /\ T = <<>> /\ eret = "none"
    /\ d = DecoderInit /\ pc = "new" /\ stack = <<>> /\ elt = NoElt /\ b = 0
    /\ tokChan = <<>> /\ delivered = <<>> /\ ret = [tok |-> NilTok, err |-> "none"]
    /\ mb = MbIdle /\ dropped = FALSE /\ bind = BindIdle /\ tab = TabIdle /\ tagByte = TagIdle
    /\ \E k \in 1..MaxWrites, s \in BOOLEAN :
          e = [EncoderInit EXCEPT !.w = [n |-> 0, failAt |-> k, sticky |-> s]]

\* EncodeToken, for the first tokens of a document
WrEncodeToken == Len(T) < MaxWrTokens /\ EncodeToken

NextWr == EncodeHeader \/ WrEncodeToken

SpecWr == InitWr /\ [][NextWr]_vars

-----------------------------------------------------------------------------
(* Specification SpecTag: encodeTag composes the tag byte of a code and    *)
(* the two flags, and Tag.ID, Tag.Attr and Tag.Content are applied to it.  *)

\* the codes of a code page that are tags: the global tokens have the codes 0 to 4
TagCodes == 5..63

InitTag ==
    /\ input = <<>> /\ eof = FALSE /\ fed = 0
    /\ e = EncoderInit /\ T = <<>> /\ eret = "none"
    /\ d = DecoderInit /\ pc = "new" /\ stack = <<>> /\ elt = NoElt /\ b = 0
    /\ tokChan = <<>> /\ delivered = <<>> /\ ret = [tok |-> NilTok, err |-> "none"]
    /\ mb = MbIdle /\ dropped = FALSE /\ bind = BindIdle /\ tab = TabIdle
    /\ \E c \in TagCodes, attrs \in {<<>>, <<Attr(<<120>>, <<118>>)>>}, content \in BOOLEAN :
          tagByte = [st |-> "token", code |-> c, tok |-> StartElement("A", attrs, content),
                     b |-> 0, ID |-> 0, Attr |-> FALSE, Content |-> FALSE]

\* encodeTag: the tag byte for the code of the token's name
TagCompose ==
    /\ tagByte.st = "token"
    /\ tagByte' = [tagByte EXCEPT !.st = "composed", !.b = FinalCode(tagByte.code, tagByte.tok)]
    /\ UNCHANGED <<streamVars, encVars, decVars, mb, dropped, bind, tab>>

\* element(): tag := Tag(b), then tag.ID(), tag.Attr() and tag.Content()
TagRead ==
    /\ tagByte.st = "composed"
    /\ tagByte' = [tagByte EXCEPT !.st = "read", !.ID = TagID(tagByte.b),
                                  !.Attr = TagAttr(tagByte.b),
                                  !.Content = TagContent(tagByte.b)]
    /\ UNCHANGED <<streamVars, encVars, decVars, mb, dropped, bind, tab>>

NextTag == TagCompose \/ TagRead

SpecTag == InitTag /\ [][NextTag]_vars

-----------------------------------------------------------------------------
(* The binder: EncodeElement writes a Go value as an element tree and      *)
(* Decode reads a tree into a value.  A value carries its type: a struct   *)
(* with its fields in order, a string, an unsigned or a signed integer of  *)
(* some width, a bool or a []byte.  An integer is held as the 64 bits that *)
(* reflect's Uint() and Int() return (two's complement for a signed one).  *)

Struct(fields) == [kind |-> "struct", fields |-> fields]
Field(n, v) == [name |-> n, val |-> v]
String(s) == [kind |-> "string", s |-> s]
Uint(bits, n) == [kind |-> "uint", bits |-> bits, n |-> n]
SInt(bits, n) == [kind |-> "int", bits |-> bits, n |-> n]
Bool(v) == [kind |-> "bool", v |-> v]
Bytes(s) == [kind |-> "bytes", s |-> s]

RECURSIVE Zero(_)
\* the zero value of the type of v
Zero(v) ==
    CASE v.kind = "struct" ->
             Struct([i \in 1..Len(v.fields) |->
                        Field(v.fields[i].name, Zero(v.fields[i].val))])
      [] v.kind = "string" -> String(<<>>)
      [] v.kind = "uint" -> Uint(v.bits, U64Zero)
      [] v.kind = "int" -> SInt(v.bits, U64Zero)
      [] v.kind = "bool" -> Bool(FALSE)
      [] v.kind = "bytes" -> Bytes(<<>>)

\* the conversion Entity(x) of a 64-bit x, Entity being a type of 32 bits: the low 32
\* bits of x (bit 31 is clear in the values of this model)
ToUint32(x) == ToInt(x) + 268435456 * (x[5] % 16)

\* reflect.Value.SetUint(x) on a field of the given width keeps the low bits
SetUint(bits, x) == FromInt(IF bits < 31 THEN x % (2 ^ bits) ELSE x)

RECURSIVE marshalValue(_, _)
\* Encoder.marshalValue(val, start): the tokens it hands to EncodeToken, in order, when
\* every EncodeToken succeeds
marshalValue(val, name) ==
    LET Elem(content, body) ==
            <<StartElement(name, <<>>, content)>> \o body \o <<EndElement(name)>>
        RECURSIVE Fields(_)
        Fields(i) ==
            IF i > Len(val.fields) THEN <<>>
            ELSE marshalValue(val.fields[i].val, val.fields[i].name) \o Fields(i + 1)
    IN CASE val.kind = "struct" -> Elem(Len(val.fields) > 0, Fields(1))
         [] val.kind = "bytes" ->
                Elem(Len(val.s) > 0, IF Len(val.s) > 0 THEN <<Opaque(val.s)>> ELSE <<>>)
         [] val.kind = "string" ->
                Elem(Len(val.s) > 0, IF Len(val.s) > 0 THEN <<CharData(val.s)>> ELSE <<>>)
         [] val.kind \in {"uint", "int"} -> Elem(TRUE, <<Entity(ToUint32(val.n))>>)
         \* a false bool writes nothing
         [] val.kind = "bool" -> IF val.v THEN Elem(TRUE, <<>>) ELSE <<>>

RECURSIVE EncodeAll(_, _, _, _)
\* the EncodeToken calls that marshalValue makes for toks: the first error ends them
EncodeAll(e0, toks, ord, calls) ==
    IF toks = <<>> THEN calls
    ELSE LET r == EncodeTokenCall(e0, Head(toks), ord)
             call == [tok |-> Head(toks), out |-> r.out, err |-> r.err,
                      pre |-> e0, post |-> r.e]
         IN IF r.err # "nil" THEN Append(calls, call)
            ELSE EncodeAll(r.e, Tail(toks), ord, Append(calls, call))

RECURSIVE Written(_)
\* the bytes the calls wrote
Written(calls) == IF calls = <<>> THEN <<>> ELSE Head(calls).out \o Written(Tail(calls))

\* d.Token() as DecodeElement sees it: the next token of toks, or nil and d.err once
\* the channel is closed; "panic" stands for the end of the process
NextTok(toks) ==
    IF toks # <<>> THEN [tok |-> Head(toks), err |-> "nil", rest |-> Tail(toks)]
    ELSE [tok |-> NilTok, err |-> IF pc = "crashed" THEN "panic" ELSE d.err, rest |-> <<>>]

RECURSIVE ParseDigits(_, _)
ParseDigits(s, acc) ==
    IF s = <<>> THEN acc ELSE ParseDigits(Tail(s), 10 * acc + (Head(s) - 48))

\* strconv.ParseUint(string(s), 10, 8)
ParseUint8(s) ==
    IF s = <<>> \/ \E i \in 1..Len(s) : s[i] \notin 48..57
    THEN [err |-> "invalid syntax", n |-> 0]
    ELSE IF ParseDigits(s, 0) > 255 THEN [err |-> "value out of range", n |-> 255]
    ELSE [err |-> "nil", n |-> ParseDigits(s, 0)]

\* the index of the field of struct v that FieldByName(n) finds, or 0
FieldByName(v, n) ==
    LET found == {i \in 1..Len(v.fields) : v.fields[i].name = n}
    IN IF found = {} THEN 0 ELSE CHOOSE i \in found : \A j \in found : i <= j

Ret(err, val, rest) == [err |-> err, val |-> val, rest |-> rest]

\* the token after the value must be the EndElement of start
ExpectEnd(v, name, toks) ==
    LET u == NextTok(toks)
    IN IF u.err # "nil" THEN Ret(u.err, v, u.rest)
       ELSE IF u.tok.type # "EndElement" \/ u.tok.Name # name
       THEN Ret("expected end element", v, u.rest)
       ELSE Ret("nil", v, u.rest)

RECURSIVE DecodeValue(_, _, _)
\* Decoder.DecodeElement(v, start) for a start that is not nil, over the tokens toks
\* that Token is still to return: the error, the value v has then and the tokens left
DecodeValue(v, name, toks) ==
    LET t == NextTok(toks)
        RECURSIVE StructLoop(_, _)
        StructLoop(w, ts) ==
            LET n == NextTok(ts)
                i == FieldByName(w, n.tok.Name)
                r == DecodeValue(w.fields[i].val, n.tok.Name, n.rest)
                w2 == [w EXCEPT !.fields[i].val = r.val]
            IN IF n.err # "nil" THEN Ret(n.err, w, n.rest)
               \* nil with a nil error is neither element: the loop calls Token again
               ELSE IF n.tok.type = "nil" THEN Ret("no return", w, n.rest)
               ELSE IF n.tok.type = "EndElement"
               THEN IF n.tok.Name = name THEN Ret("nil", w, n.rest)
                    ELSE Ret("expected end element", w, n.rest)
               ELSE IF n.tok.type = "StartElement"
               THEN IF i = 0 THEN Ret("struct has no field", w, n.rest)
                    ELSE IF r.err # "nil" THEN Ret(r.err, w2, r.rest)
                    ELSE StructLoop(w2, r.rest)
               ELSE StructLoop(w, n.rest)
    IN CASE v.kind = "struct" -> StructLoop(v, toks)
         [] v.kind = "string" ->
                IF t.err # "nil" THEN Ret(t.err, v, t.rest)
                ELSE IF t.tok.type = "CharData"
                THEN ExpectEnd(String(t.tok.data), name, t.rest)
                ELSE Ret("expected a CharData", v, t.rest)
         [] v.kind = "uint" ->
                IF t.err # "nil" THEN Ret(t.err, v, t.rest)
                ELSE IF t.tok.type = "Entity"
                THEN ExpectEnd(Uint(v.bits, SetUint(v.bits, t.tok.code)), name, t.rest)
                ELSE IF t.tok.type = "CharData"
                THEN LET p == ParseUint8(t.tok.data)
                     IN IF p.err # "nil" THEN Ret(p.err, v, t.rest)
                        ELSE ExpectEnd(Uint(v.bits, SetUint(v.bits, p.n)), name, t.rest)
                ELSE Ret("expected a number", v, t.rest)
         [] OTHER -> Ret("not implemented", v, toks)

\* Decoder.Decode(v): DecodeElement(v, nil)
DecodeElement(v, toks) ==
    LET t == NextTok(toks)
    IN IF t.err # "nil" THEN Ret(t.err, v, t.rest)
       ELSE IF t.tok.type = "StartElement" THEN DecodeValue(v, t.tok.Name, t.rest)
       ELSE Ret("expected a StartElement", v, t.rest)

-----------------------------------------------------------------------------
(* Specification SpecBind: a header and one value are encoded, the bytes   *)
(* are decoded into a zero value of a chosen shape.                        *)

MaxFields == 2

\* the root element and the names of the fields of the root struct, in order
RootName == "A"
FieldNames == <<"B", "C", "A">>

\* 2^32 + 5, and -2^32 + 5 in two's complement
Big == [FromInt(5) EXCEPT ![5] = 16]
MinusBig == [i \in 1..Limbs |-> CASE i = 1 -> 5 [] i \in 2..4 -> 0 [] i = 5 -> 112
                                   [] i = Limbs -> 1 [] OTHER -> 127]

\* the text "256"
Text256 == <<50, 53, 54>>

FieldValues == {
    String(<<>>), String(<<69>>), Uint(8, FromInt(5)), Bool(TRUE), Bool(FALSE),
    Bytes(<<69>>), Struct(<<Field("B", String(<<69>>))>>),
    String(Text256), Uint(64, Big), SInt(64, MinusBig)
}

\* the structs of up to MaxFields fields
BindValues ==
    UNION {{Struct([i \in 1..n |-> Field(FieldNames[i], f[i])]) :
               f \in [1..n -> FieldValues]} : n \in 0..MaxFields}

\* v without its i-th field
DropField(v, i) ==
    Struct(SubSeq(v.fields, 1, i - 1) \o SubSeq(v.fields, i + 1, Len(v.fields)))

\* the type of v with uint16 for the type of its string and integer fields
AsUint16(v) ==
    Struct([i \in 1..Len(v.fields) |->
               Field(v.fields[i].name,
                     IF v.fields[i].val.kind \in {"string", "uint", "int"}
                     THEN Uint(16, U64Zero) ELSE Zero(v.fields[i].val))])

\* the values Decode is given for the bytes of v: the zero value of v's type, of that
\* type less one field, or of that type with uint16 fields
Targets(v) ==
    {Zero(v), AsUint16(v)} \cup {Zero(DropField(v, i)) : i \in 1..Len(v.fields)}

InitBind ==
    /\ input = <<>> /\ eof = FALSE /\ fed = 0
    /\ e = EncoderInit /\ T = <<>> /\ eret = "none"
    /\ d = DecoderInit /\ pc = "new" /\ stack = <<>> /\ elt = NoElt /\ b = 0
    /\ tokChan = <<>> /\ delivered = <<>> /\ ret = [tok |-> NilTok, err |-> "none"]
    /\ mb = MbIdle /\ dropped = FALSE /\ tab = TabIdle /\ tagByte = TagIdle
    /\ \E v \in BindValues : \E t \in Targets(v) :
          bind = [st |-> "idle", val |-> v, target |-> t, err |-> "none",
                  res |-> t, derr |-> "none"]

\* Encoder.EncodeElement(v, StartElement{Name: RootName}) after EncodeHeader; the
\* buffer written is then the decoder's reader
EncodeElement ==
    /\ eret = "nil" /\ bind.st = "idle"
    /\ \E ord \in PageOrders :
          LET calls == EncodeAll(e, marshalValue(bind.val, RootName), ord, <<>>)
              last == calls[Len(calls)]
          IN /\ T' = calls
             /\ input' = input \o Written(calls)
             /\ e' = last.post
             /\ eret' = last.err
             /\ bind' = [bind EXCEPT !.st = "encoded", !.err = last.err]
    /\ eof' = TRUE
    /\ UNCHANGED <<fed, decVars, mb, dropped, tab, tagByte>>

\* Decoder.Decode(&target): its calls of Token are the Token steps taken so far, and
\* it returns when the producer has sent all it sends
Decode ==
    /\ bind.st = "encoded" /\ pc \in {"closed", "crashed"} /\ tokChan = <<>>
    /\ LET r == DecodeElement(bind.target, delivered)
       IN bind' = [bind EXCEPT !.st = "decoded", !.res = r.val, !.derr = r.err]
    /\ UNCHANGED <<streamVars, encVars, decVars, mb, dropped, tab, tagByte>>

\* no element of a marshalled value has attributes: the attribute steps of the
\* producer cannot occur
NextBind ==
    \/ EncodeHeader \/ EncodeElement \/ DecodeWritten
    \/ DecHeader \/ DecBody \/ DecElement \/ DecContent \/ DecOpaque \/ DecBodyPost
    \/ Token \/ Decode

SpecBind == InitBind /\ [][NextBind]_vars

-----------------------------------------------------------------------------
(* Specification SpecStr: the string table.  GetString and GetIndex are    *)
(* applied to a table, and an encoder whose header holds the table encodes *)
(* a CharData, or a StartElement with one attribute.                       *)

MaxTable == 4

\* the sequences over S of up to n items
SeqsUpTo(S, n) == UNION {[1..k -> S] : k \in 0..n}

\* the string tables: NUL, "E" and "v" in any arrangement
Tables == SeqsUpTo({0, 69, 118}, MaxTable)
\* the strings looked up, written as CharData and as the value of attribute "x": "v"
\* and "x" are names of the attribute code space
TabStrings == SeqsUpTo({69, 118}, 2) \cup {<<120>>}

\* a run is about an offset into the table or about a string
InitStr ==
    /\ input = <<>> /\ eof = FALSE /\ fed = 0
    /\ e = EncoderInit /\ T = <<>> /\ eret = "none"
    /\ d = DecoderInit /\ pc = "new" /\ stack = <<>> /\ elt = NoElt /\ b = 0
    /\ tokChan = <<>> /\ delivered = <<>> /\ ret = [tok |-> NilTok, err |-> "none"]
    /\ mb = MbIdle /\ dropped = FALSE /\ bind = BindIdle /\ tagByte = TagIdle
    /\ \E table \in Tables :
          LET t0 == [st |-> "string", table |-> table, i |-> 0, str |-> <<>>,
                     gs |-> [st |-> "none", val |-> <<>>],
                     gi |-> [ok |-> FALSE, index |-> 0]]
          IN \/ \E i \in 0..(MaxTable + 1) : tab = [t0 EXCEPT !.st = "offset", !.i = i]
             \/ \E str \in TabStrings : tab = [t0 EXCEPT !.str = str]

\* d.GetString(i) on a decoder whose header holds the table
StrGetString ==
    /\ tab.st = "offset"
    /\ tab' = [tab EXCEPT !.st = "got", !.gs = GetString(tab.table, tab.i)]
    /\ UNCHANGED <<streamVars, encVars, decVars, mb, dropped, bind, tagByte>>

\* e.GetIndex(str) on an encoder whose header holds the table
StrGetIndex ==
    /\ tab.st = "string"
    /\ tab' = [tab EXCEPT !.st = "indexed", !.gi = GetIndex(tab.table, tab.str)]
    /\ UNCHANGED <<streamVars, encVars, decVars, mb, dropped, bind, tagByte>>

\* EncodeHeader with the table
StrEncodeHeader ==
    /\ tab.st = "string"
    /\ LET r == EncodeHeaderCall(e, Header(1, 1, 3, tab.table))
       IN /\ e' = r.e
          /\ input' = input \o r.out
          /\ eret' = r.err
    /\ tab' = [tab EXCEPT !.st = "header"]
    /\ UNCHANGED <<eof, fed, T, decVars, mb, dropped, bind, tagByte>>

\* the EncodeToken call of SpecStr for the token tok
StrEncode(tok, st) ==
    /\ tab.st = "header"
    /\ \E ord \in PageOrders :
          LET r == EncodeTokenCall(e, tok, ord)
          IN /\ e' = r.e
             /\ input' = input \o r.out
             /\ eret' = r.err
             /\ T' = Append(T, [tok |-> tok, out |-> r.out, err |-> r.err,
                                pre |-> e, post |-> r.e])
    /\ tab' = [tab EXCEPT !.st = st]
    /\ UNCHANGED <<eof, fed, decVars, mb, dropped, bind, tagByte>>

\* EncodeToken(CharData(str))
StrEncodeCharData == StrEncode(CharData(tab.str), "chardata")

\* EncodeToken(StartElement{Name: "A", Attr: {x = str}}); the element has no content,
\* so its EndElement writes nothing
StrEncodeAttr == StrEncode(StartElement("A", <<Attr(<<120>>, tab.str)>>, FALSE), "attr")

\* the element written is complete: the buffer is handed to the decoder as its reader
StrFinish ==
    /\ tab.st = "attr" /\ ~eof
    /\ eof' = TRUE
    /\ UNCHANGED <<input, fed, encVars, decVars, mb, dropped, bind, tab, tagByte>>

\* the element has no content: content() is never entered
NextStr ==
    \/ StrGetString \/ StrGetIndex
    \/ StrEncodeHeader \/ StrEncodeCharData \/ StrEncodeAttr
    \/ StrFinish \/ DecodeWritten
    \/ DecHeader \/ DecBody \/ DecElement \/ DecAttrFirst \/ DecAttrs \/ DecAttrValue
    \/ DecBodyPost \/ Token

SpecStr == InitStr /\ [][NextStr]_vars

-----------------------------------------------------------------------------
(* Properties of the decoder (specification Spec).                         *)

TheHeader == <<1, 1, 3, 2, 69, 0>>

\* the names of the elements that seq leaves open, innermost last; <<"?">> in front
\* marks an EndElement that did not match
RECURSIVE OpenAfter(_, _)
OpenAfter(seq, open) ==
    IF seq = <<>> THEN open
    ELSE LET t == Head(seq)
         IN IF t.type = "StartElement" THEN OpenAfter(Tail(seq), Append(open, t.Name))
            ELSE IF t.type = "EndElement"
            THEN IF open # <<>> /\ open[Len(open)] = t.Name
                 THEN OpenAfter(Tail(seq), SubSeq(open, 1, Len(open) - 1))
                 ELSE <<"?">>
            ELSE OpenAfter(Tail(seq), open)

\* the root element has been read to its end and all its tokens are delivered
RootDone == pc = "bodyPost" /\ tokChan = <<>>

\* C4: every EndElement delivered carries the name of the innermost StartElement
\* still open, and once the root element is complete no StartElement is left open
C4_Nesting ==
    /\ OpenAfter(delivered, <<>>) # <<"?">>
    /\ RootDone => OpenAfter(delivered, <<>>) = <<>>

\* C4 happens: an element B nested in an element A, both delivered and closed
C4_Witness ==
    /\ RootDone
    /\ Len(delivered) = 4
    /\ delivered[1].type = "StartElement" /\ delivered[1].Name = "A"
    /\ delivered[2].type = "StartElement" /\ delivered[2].Name = "B"
    /\ delivered[3] = EndElement("B")
    /\ delivered[4] = EndElement("A")

\* C5: no two CharData tokens are delivered one directly after the other
C5_NoAdjacentCharData ==
    \A i \in 1..(Len(delivered) - 1) :
        ~(delivered[i].type = "CharData" /\ delivered[i + 1].type = "CharData")

\* C6: no CharData of length zero is sent or delivered
C6_NoEmptyCharData ==
    /\ \A i \in 1..Len(delivered) :
          delivered[i].type = "CharData" => Len(delivered[i].data) > 0
    /\ \A i \in 1..Len(tokChan) :
          tokChan[i].type = "CharData" => Len(tokChan[i].data) > 0

\* C6 happens: a content that holds only an empty inline string and a reference to
\* the empty string of the table is delivered without any CharData
C6_Witness ==
    /\ RootDone
    /\ input = TheHeader \o <<69, 3, 0, 131, 1, 1>>
    /\ Len(delivered) = 2

\* C7: as long as no SWITCH_PAGE was met in content, an Entity token is never
\* delivered next to a CharData: an ENTITY with character data before or after it
\* is folded into that CharData
C7_EntityAloneOnly ==
    d.tagPage = 0 =>
        \A i \in 1..(Len(delivered) - 1) :
            /\ ~(delivered[i].type = "Entity" /\ delivered[i + 1].type = "CharData")
            /\ ~(delivered[i].type = "CharData" /\ delivered[i + 1].type = "Entity")

\* C8: the content STR_I "E", ENTITY 160, STR_T (to "E" or to "") is delivered as the one
\* CharData "E" + UTF-8(160) + the table string, and the content ENTITY 160 alone as the
\* one token Entity(160)
C8_FoldedOrAlone ==
    /\ \A i \in {0, 1} :
          (RootDone /\ input = TheHeader \o <<69, 3, 69, 0, 2, 129, 32, 131, i, 1>>)
          => /\ Len(delivered) = 3
             /\ delivered[1].type = "StartElement"
             /\ delivered[2] = CharData(<<69, 194, 160>>
                                        \o GetString(d.Header.StringTable, i).val)
             /\ delivered[3] = EndElement("A")
    /\ (RootDone /\ input = TheHeader \o <<69, 2, 129, 32, 1>>)
       => /\ Len(delivered) = 3
          /\ delivered[1].type = "StartElement"
          /\ delivered[2] = Entity(160)
          /\ delivered[3] = EndElement("A")

\* C8 happens: the three adjacent items were read and delivered as one CharData
C8_Witness ==
    /\ RootDone
    /\ input = TheHeader \o <<69, 3, 69, 0, 2, 129, 32, 131, 0, 1>>
    /\ Len(delivered) = 3
    /\ delivered[2] = CharData(<<69, 194, 160, 69>>)

-----------------------------------------------------------------------------
(* Properties of the multi-byte integers (specification SpecMb).           *)

\* v < 2^(7n)
Fits(v, n) == \A i \in (n + 1)..Limbs : v[i] = 0

\* the number of base-128 digits of v, 1 for zero
Digits128(v) ==
    IF IsZero(v) THEN 1
    ELSE CHOOSE n \in 1..Limbs : v[n] # 0 /\ \A i \in (n + 1)..Limbs : v[i] = 0

\* C2: for v < 2^(7N), N in 1..8, writeMbUint(v, N) succeeds and writes the digits of v
\* in base 128, most significant first and without a leading zero digit, with bit 7
\* set on all bytes but the last; mbUint with maximum N reads v back from them
C2_MbRoundTrip ==
    (mb.st # "idle" /\ Fits(mb.v, mb.max)) =>
        /\ ~mb.err
        /\ input = mb.out
        /\ Len(mb.out) = Digits128(mb.v)
        /\ \A k \in 1..Len(mb.out) :
              mb.out[k] = mb.v[Len(mb.out) - k + 1]
                          + (IF k < Len(mb.out) THEN 128 ELSE 0)
        /\ mb.st = "read" => (mb.rst = "ok" /\ mb.rv = mb.v)

\* C2 happens: a value of eight digits with a zero digit inside was written on eight
\* bytes and read back
C2_Witness ==
    /\ mb.st = "read" /\ mb.max = 8
    /\ mb.v[8] = 127 /\ mb.v[3] = 0 /\ mb.v[9] = 0 /\ mb.v[10] = 0
    /\ Len(mb.out) = 8 /\ mb.rv = mb.v

\* C3: for v >= 2^(7N), writeMbUint(v, N) returns an error and writes no byte
C3_MbOverflow ==
    /\ (mb.st # "idle" /\ ~Fits(mb.v, mb.max)) =>
          (mb.err /\ mb.out = <<>> /\ input = <<>>)
    /\ (mb.st = "written32" /\ ~Fits(mb.v, 4)) =>
          (mb.err /\ mb.out = <<>> /\ input = <<>>)

\* C3 happens: a value with bit 63 set was refused on eight bytes, and a value of two
\* digits on one byte
C3_Witness ==
    /\ mb.err /\ input = <<>>
    /\ \/ mb.st = "written" /\ mb.max = 8 /\ mb.v[10] = 1
       \/ mb.st = "written32" /\ mb.v[5] = 1

-----------------------------------------------------------------------------
(* Properties of the encoder and of the round trip (specification SpecEnc). *)

RECURSIVE Canon(_)
\* seq with every run of adjacent CharData merged into one
Canon(seq) ==
    IF Len(seq) < 2 THEN seq
    ELSE IF seq[1].type = "CharData" /\ seq[2].type = "CharData"
    THEN Canon(<<CharData(seq[1].data \o seq[2].data)>> \o SubSeq(seq, 3, Len(seq)))
    ELSE <<seq[1]>> \o Canon(Tail(seq))

\* T is one complete element tree, every call succeeded (so every name is in the code
\* spaces), and Content is true exactly on the StartElements that have content
ValidTree ==
    /\ T # <<>> /\ OpenElems(Toks(T), <<>>) = <<>>
    /\ \A i \in 1..Len(T) : T[i].err = "nil"
    /\ \A i \in 1..(Len(T) - 1) :
          T[i].tok.type = "StartElement" =>
              (T[i].tok.Content <=> T[i + 1].tok.type # "EndElement")

\* the decoder has stopped and all its tokens are delivered
DecodeDone == pc \in {"bodyPost", "closed"} /\ tokChan = <<>>

\* C1: decoding the bytes written for a valid tree T delivers the tokens of T, adjacent
\* CharData merged
C1_RoundTrip ==
    (eof /\ ValidTree) =>
        /\ pc # "crashed"
        /\ DecodeDone => delivered = Canon(Toks(T))

\* an order of the pages under which the call T[i] does what was recorded of it
OrdOf(i) ==
    CHOOSE ord \in PageOrders :
        LET r == EncodeTokenCall(T[i].pre, T[i].tok, ord)
        IN r.out = T[i].out /\ r.err = T[i].err /\ r.e = T[i].post

\* the code and page of the element name of the call T[i]: each name of the tag code
\* space is on one page, so that the order of the pages makes no difference
TagOf(i) == findCodePage(tagSpace, T[i].tok.Name, <<0, 1>>)

\* the index in seq of the EndElement that closes the StartElement at index i, 0 if none
MatchEnd(seq, i) ==
    LET closed == {j \in (i + 1)..Len(seq) : OpenElems(SubSeq(seq, i, j), <<>>) = <<>>}
    IN IF closed = {} THEN 0 ELSE CHOOSE j \in closed : \A k \in closed : j <= k

\* the index in T[i].out of the tag byte of the StartElement T[i]
TagByteAt(i) == IF T[i].pre.tagPage # TagOf(i).page THEN 3 ELSE 1

\* C9: a StartElement without content that its EndElement follows directly is written
\* as its tag byte without the content flag, then its attributes closed by END if it has
\* any, and the EndElement writes nothing; the EndElement that closes a StartElement
\* with content writes one END (and after it at most a page switch)
C9_EndElision ==
    \A i \in 1..Len(T) :
        LET s == T[i]
            k == TagByteAt(i)
            j == MatchEnd(Toks(T), i)
        IN (s.tok.type = "StartElement" /\ s.err = "nil" /\ j # 0) =>
              IF ~s.tok.Content
              THEN j = i + 1 =>
                      /\ Len(s.out) >= k
                      /\ TagID(s.out[k]) = TagOf(i).code
                      /\ ~TagContent(s.out[k])
                      /\ TagAttr(s.out[k]) <=> s.tok.Attr # <<>>
                      /\ IF s.tok.Attr = <<>> THEN Len(s.out) = k
                         ELSE Len(s.out) > k + 1 /\ s.out[Len(s.out)] = gloEnd
                      /\ T[j].out = <<>> /\ T[j].err = "nil"
              ELSE /\ T[j].err = "nil"
                   /\ \/ T[j].out = <<gloEnd>>
                      \/ /\ Len(T[j].out) = 3
                         /\ SubSeq(T[j].out, 1, 2) = <<gloEnd, gloSwitchPage>>

\* C9 happens: inside an element with content, an element without content and with an
\* attribute was encoded, then the EndElements of both
C9_Witness ==
    /\ Len(T) = 4
    /\ T[1].tok = StartElement("A", <<>>, TRUE)
    /\ T[2].tok = StartElement("A", <<Attr(<<121>>, <<69>>)>>, FALSE)
    /\ T[2].err = "nil" /\ T[2].out[Len(T[2].out)] = gloEnd
    /\ T[3].tok = EndElement("A") /\ T[3].out = <<>>
    /\ T[4].tok = EndElement("A") /\ T[4].out[1] = gloEnd

\* C10: encoding a StartElement writes SWITCH_PAGE and the page directly before the tag
\* byte exactly when the page of the name is not the current tag page, and leaves the
\* current tag page equal to the page of the name
C10_TagPageSwitch ==
    \A i \in 1..Len(T) :
        LET s == T[i]
            t == TagOf(i)
        IN (s.tok.type = "StartElement" /\ s.err = "nil") =>
              /\ IF s.pre.tagPage # t.page
                 THEN /\ SubSeq(s.out, 1, 2) = <<gloSwitchPage, t.page>>
                      /\ TagID(s.out[3]) = t.code
                 ELSE /\ s.out[1] # gloSwitchPage
                      /\ TagID(s.out[1]) = t.code
              /\ s.post.tagPage = t.page

-----------------------------------------------------------------------------
(* Pages, errors, end of stream and order (specifications SpecEnc and Spec). *)

\* the names of the StartElements of seq, in order
StartNames(seq) ==
    LET starts == SelectSeq(seq, LAMBDA t : t.type = "StartElement")
    IN [i \in 1..Len(starts) |-> starts[i].Name]

\* T holds StartElements and EndElements only, one complete tree, encoded without error
TagOnlyTree ==
    /\ T # <<>> /\ OpenElems(Toks(T), <<>>) = <<>>
    /\ \A i \in 1..Len(T) :
          T[i].err = "nil" /\ T[i].tok.type \in {"StartElement", "EndElement"}

\* C11: the decoder resolves the tag bytes written for a tree of elements to the names
\* the encoder was given, in the order given
C11_PagesAgree ==
    (eof /\ TagOnlyTree) =>
        /\ pc # "crashed"
        /\ DecodeDone => StartNames(delivered) = StartNames(Toks(T))

\* C12: no error of the decoder leaves run() otherwise than as the result of Token
C12_ErrorsReachToken == pc # "crashed"

\* the tokens delivered end with the EndElement that closes the root element
RootClosed ==
    /\ delivered # <<>>
    /\ delivered[Len(delivered)].type = "EndElement"
    /\ OpenAfter(delivered, <<>>) = <<>>

\* C13: once the root element is delivered in full and the producer has ended, Token
\* returns nil and io.EOF
C13_EndOfStream ==
    (pc = "closed" /\ tokChan = <<>> /\ RootClosed) => d.err = "EOF"

\* C14: the first token is a StartElement, and nothing is sent while an attribute list
\* is read, before the StartElement that carries it
C14_DocumentOrder ==
    /\ delivered # <<>> => delivered[1].type = "StartElement"
    /\ pc \in {"attrFirst", "attrs", "attrValue"} => tokChan = <<>>

\* C17: when the input ends inside an open element, Token does not end with io.EOF, the
\* result it gives after a complete document
C17_UnexpectedEnd ==
    (pc = "closed" /\ tokChan = <<>> /\ OpenAfter(delivered, <<>>) # <<>>)
        => d.err # "EOF"

\* C18: the Content field of a StartElement that is sent is the content flag of its tag
\* byte
C18_ContentFlag ==
    (tokChan # <<>> /\ Head(tokChan).type = "StartElement")
        => Head(tokChan).Content = TagContent(elt.tag)

\* C16: readHeader over the bytes EncodeHeader wrote returns the header that was encoded
\* and leaves the decoder at the first byte after them
C16_HeaderRoundTrip ==
    [][(eof /\ pc = "run") =>
            /\ pc' = "body"
            /\ d'.Header = e.Header
            /\ d'.offset = Len(EncodeHeaderCall(EncoderInit, e.Header).out)]_vars

\* C15: once the consumer has stopped calling Token, the producer goroutine comes to
\* its end
C15_ProducerEnds == dropped ~> (pc \in {"closed", "crashed"})

-----------------------------------------------------------------------------
(* Properties of the binder (specification SpecBind).                      *)

\* C19: a value that is encoded and decoded into the zero value of its type comes back
\* equal, without an error on either side
C19_BindRoundTrip ==
    /\ bind.st \in {"encoded", "decoded"} => bind.err = "nil"
    /\ (bind.st = "decoded" /\ bind.target = Zero(bind.val)) =>
           (bind.derr = "nil" /\ bind.res = bind.val)

RECURSIVE Plain(_)
\* v holds only non-empty strings, unsigned integers and structs of these
Plain(v) ==
    CASE v.kind = "struct" -> \A i \in 1..Len(v.fields) : Plain(v.fields[i].val)
      [] v.kind = "string" -> v.s # <<>>
      [] v.kind = "uint" -> TRUE
      [] OTHER -> FALSE

\* the i-th field of the value encoded wrote an element, and Decode was given the
\* value's type less that field
UnknownElement(i) ==
    /\ bind.target = Zero(DropField(bind.val, i))
    /\ marshalValue(bind.val.fields[i].val, bind.val.fields[i].name) # <<>>

\* C20: an element that matches no field of the struct decoded into is skipped with its
\* subtree: Decode returns no error and the fields that are there get their values
C20_UnknownSkipped ==
    \A i \in 1..Len(bind.val.fields) :
        (bind.st = "decoded" /\ UnknownElement(i) /\ Plain(DropField(bind.val, i))) =>
            (bind.derr = "nil" /\ bind.res = DropField(bind.val, i))

-----------------------------------------------------------------------------
(* Properties of the string table (specification SpecStr).                 *)

\* the index, counted from 1, of the first NUL of table at or after offset i, or 0
FirstNul(table, i) ==
    LET nuls == {k \in (i + 1)..Len(table) : table[k] = 0}
    IN IF nuls = {} THEN 0 ELSE CHOOSE k \in nuls : \A m \in nuls : k <= m

\* C21: GetString(i) fails exactly when i is at or beyond the table's length or no NUL
\* lies at or after i, and otherwise returns the bytes from i up to the first such NUL
C21_GetString ==
    tab.st = "got" =>
        LET k == FirstNul(tab.table, tab.i)
        IN /\ tab.gs.st = "err" <=> (tab.i >= Len(tab.table) \/ k = 0)
           /\ tab.gs.st = "ok" => tab.gs.val = [j \in 1..(k - 1 - tab.i) |-> tab.table[tab.i + j]]

\* a string inside the table, not at its start, is returned
C21_Witness ==
    /\ tab.st = "got" /\ tab.gs.st = "ok"
    /\ tab.i > 0 /\ tab.gs.val # <<>>
    /\ FirstNul(tab.table, tab.i) < Len(tab.table)

-----------------------------------------------------------------------------
(* Properties of the attributes (specifications SpecEnc, Spec and SpecStr). *)

\* the attribute page of the last code that the call T[i] writes for its attributes
LastAttrPage(i) ==
    LET a == T[i].tok.Attr[Len(T[i].tok.Attr)]
        v == findCodePage(attrSpace, a.Value, OrdOf(i))
    IN IF ~v.err THEN v.page ELSE findCodePage(attrSpace, a.Name, OrdOf(i)).page

\* C22: encoding a StartElement with attributes leaves the tag page at the page of the
\* tag and sets the attribute page to the page of the last attribute code written
C22_AttrPageOnly ==
    \A i \in 1..Len(T) :
        (T[i].tok.type = "StartElement" /\ T[i].tok.Attr # <<>> /\ T[i].err = "nil") =>
            /\ T[i].post.tagPage = TagOf(i).page
            /\ T[i].post.attrPage = LastAttrPage(i)

\* C23: a step of readAttrValue that reads an ENTITY appends the UTF-8 encoding of its
\* code to the value and sends no token
C23_EntityInValueFolded ==
    [][(/\ pc = "attrValue" /\ pc' = "attrValue"
        /\ d'.offset > d.offset
        /\ readByte(d.offset).val = gloEntity) =>
            /\ tokChan' = <<>>
            /\ elt'.val.data = elt.val.data \o EncodeRune(mbUint32(d.offset + 1).val)]_vars

\* the offsets of the NUL-terminated slots of table that hold the string c
SlotOffsets(table, c) ==
    {i \in 0..(Len(table) - 1) :
        /\ i = 0 \/ table[i] = 0
        /\ FirstNul(table, i) # 0
        /\ c = [j \in 1..(FirstNul(table, i) - 1 - i) |-> table[i + j]]}

\* the bytes of a string c as the string emitter is to write them under table: a
\* reference to the first slot that holds c, else the inline string, nothing for ""
EmitterBytes(table, c) ==
    LET offs == SlotOffsets(table, c)
        first == CHOOSE i \in offs : \A j \in offs : i <= j
    IN IF offs # {} THEN <<gloStrT>> \o WriteMb32(Call(EncoderInit), first).out
       ELSE IF c # <<>> THEN <<gloStrI>> \o c \o <<0>>
       ELSE <<>>

\* the names of the attribute code space
AttrNames == UNION {{attrSpace[p][c] : c \in DOMAIN attrSpace[p]} : p \in DOMAIN attrSpace}

\* C24: the value of attribute x of element A is written as its code when it is a name
\* of the attribute code space and through the string emitter otherwise, and the
\* decoder returns the attribute list that was encoded
C24_AttrRoundTrip ==
    (tab.st = "attr" /\ T[1].err = "nil") =>
        /\ T[1].out = <<133, 5>>
                \o (IF tab.str \in AttrNames
                    THEN <<findCodePage(attrSpace, tab.str, OrdOf(1)).code>>
                    ELSE EmitterBytes(tab.table, tab.str))
                \o <<gloEnd>>
        /\ pc # "crashed"
        /\ (pc \in {"bodyPost", "closed"} /\ tokChan = <<>>) =>
               (delivered # <<>> /\ delivered[1].Attr = T[1].tok.Attr)

\* C25 as stated: a CharData c is written as a reference to the first slot that holds
\* it, and as STR_I, c and a NUL when no slot does
C25_WriteString ==
    (tab.st = "chardata" /\ T[1].err = "nil") =>
        T[1].out = IF SlotOffsets(tab.table, tab.str) # {}
                   THEN EmitterBytes(tab.table, tab.str)
                   ELSE <<gloStrI>> \o tab.str \o <<0>>

\* C25, amended: a CharData c is written as a reference to the first slot that holds
\* it, as STR_I, c and a NUL when no slot does and c is not empty, and not at all when
\* no slot does and c is empty; an offset that GetIndex(c) returns is one at which
\* GetString returns c
C25_WriteStringNonEmpty ==
    /\ (tab.st = "chardata" /\ T[1].err = "nil") =>
           T[1].out = EmitterBytes(tab.table, tab.str)
    /\ tab.st = "indexed" =>
           /\ tab.gi.ok <=> SlotOffsets(tab.table, tab.str) # {}
           /\ tab.gi.ok => GetString(tab.table, tab.gi.index) = [st |-> "ok", val |-> tab.str]

\* a string held by a slot that is not the first is written as a reference to it
C25_Witness ==
    /\ tab.st = "chardata" /\ tab.str # <<>>
    /\ SlotOffsets(tab.table, tab.str) # {} /\ 0 \notin SlotOffsets(tab.table, tab.str)
    /\ T[1].out[1] = gloStrT

\* C26: an empty CharData writes no byte, and an attribute with an empty value only its
\* name
C26_EmptyDropped ==
    tab.str = <<>> =>
        /\ tab.st = "chardata" => T[1].out = <<>>
        /\ tab.st = "attr" => T[1].out = <<133, 5, gloEnd>>

(* Properties of the code pages and of PI (specification Spec). *)

\* the document read is the header followed by the bytes doc, and more
DocStartsWith(doc) ==
    LET p == (CHOOSE h \in HeaderInputs : TRUE) \o doc
    IN Len(input) >= Len(p) /\ SubSeq(input, 1, Len(p)) = p

\* the producer has ended and every token it sent is delivered
Ended == pc \in {"closed", "crashed"} /\ tokChan = <<>>

\* C27: a root tag preceded by SWITCH_PAGE 1 is decoded as the element of that code on
\* tag page 1
C27_SwitchThenElement ==
    (DocStartsWith(<<gloSwitchPage, 1, 5>>) /\ Ended) =>
        /\ Len(delivered) = 2
        /\ delivered[1].type = "StartElement" /\ delivered[1].Name = "C"
        /\ delivered[2] = EndElement("C")

\* C28: a SWITCH_PAGE at an attribute start, or after the bytes of a value, takes one
\* byte as the attribute page and the list goes on with the byte after it
C28_AttrSwitchPage ==
    /\ (DocStartsWith(<<133, gloSwitchPage, 1, 5, gloEnd>>) /\ Ended) =>
           /\ delivered # <<>>
           /\ delivered[1].Attr = <<Attr(<<121>>, <<>>)>>
    /\ (DocStartsWith(<<133, 5, 133, gloSwitchPage, 1, gloEnd>>) /\ Ended) =>
           /\ delivered # <<>>
           /\ delivered[1].Attr = <<Attr(<<120>>, <<118>>)>>

\* C29: both pages are 0 until the body is read; the tag page changes only in element(),
\* the attribute page only in an attribute list, never both, and the new page is the
\* byte that follows a SWITCH_PAGE
C29_PagesFrame ==
    [][/\ pc \in {"new", "run"} => (d'.tagPage = 0 /\ d'.attrPage = 0)
       /\ d'.tagPage # d.tagPage =>
              /\ pc = "element" /\ d'.attrPage = d.attrPage
              /\ input[d.offset] = gloSwitchPage /\ d'.tagPage = input[d.offset + 1]
       /\ d'.attrPage # d.attrPage =>
              /\ pc \in {"attrs", "attrValue"} /\ d'.tagPage = d.tagPage
              /\ input[d.offset] = gloSwitchPage /\ d'.attrPage = input[d.offset + 1]]_vars

\* C30: once a PI is read before the root element, the producer has ended, and not with
\* io.EOF
C30_PiFails ==
    (DocStartsWith(<<gloPi>>) /\ d.offset > Len(CHOOSE h \in HeaderInputs : TRUE)) =>
        (pc \in {"closed", "crashed"} /\ d.err # "EOF")

(* Properties of the integers of the binder (specification SpecBind). *)

\* s is the decimal text of a number
Digits(s) == s # <<>> /\ \A i \in 1..Len(s) : s[i] \in 48..57

\* the field value f reaches the decoder as an Entity or as decimal text
IsNumber(f) == f.kind = "uint" \/ (f.kind = "string" /\ Digits(f.s))

\* the number that f stands for
NumberOf(f) == IF f.kind = "uint" THEN f.n ELSE FromInt(ParseDigits(f.s, 0))

\* n < 2^16
Fits16(n) == n[3] < 4 /\ \A i \in 4..Limbs : n[i] = 0

\* C31: decoding an Entity, or a CharData that is the decimal text of a number, into a
\* uint16 field sets the field to that number when it is below 2^16, and Decode returns
\* no error
C31_UintField ==
    (/\ bind.st = "decoded" /\ bind.target = AsUint16(bind.val)
     /\ bind.val.fields # <<>>
     /\ \A i \in 1..Len(bind.val.fields) :
           IsNumber(bind.val.fields[i].val) /\ Fits16(NumberOf(bind.val.fields[i].val)))
    => /\ bind.derr = "nil"
       /\ \A i \in 1..Len(bind.val.fields) :
             bind.res.fields[i].val = Uint(16, NumberOf(bind.val.fields[i].val))

\* C32: a struct whose one field is an integer v is written as the two tags with their
\* content flag, ENTITY, the multi-byte integer v, and the two ENDs
C32_IntegerOnWire ==
    (/\ bind.st \in {"encoded", "decoded"} /\ Len(bind.val.fields) = 1
     /\ bind.val.fields[1].val.kind \in {"uint", "int"})
    => /\ bind.err = "nil"
       /\ Written(T) = <<69, 70, gloEntity>>
                           \o writeMbUint(bind.val.fields[1].val.n, Limbs).out
                           \o <<gloEnd, gloEnd>>

(* Properties of the encoder's calls (specification SpecEnc). *)

\* C33: the bytes and the error of an EncodeToken call are those of the same call on
\* any other encoder in the same state, whatever the order in which its range over
\* the code space visits the pages
C33_Deterministic ==
    \A i \in 1..Len(T) : \A ord \in PageOrders :
        LET r == EncodeTokenCall(T[i].pre, T[i].tok, ord)
        IN r.out = T[i].out /\ r.err = T[i].err

(* Properties of the encoder's errors (specification SpecWr). *)

\* a Write of the call T[i] returned an error
WriteFailed(i) ==
    LET w == T[i].pre.w
        n == T[i].post.w.n
    IN IF w.sticky THEN n >= w.failAt ELSE w.n < w.failAt /\ w.failAt <= n

\* C34: an EncodeToken call for a StartElement in which a Write returned an error
\* returns an error
C34_WriteErrorsReturned ==
    \A i \in 1..Len(T) :
        (T[i].tok.type = "StartElement" /\ WriteFailed(i)) => T[i].err # "nil"

(* Properties of the tag byte (specification SpecTag). *)

\* the global tokens of the wire format
GlobalTokens ==
    {gloSwitchPage, gloEnd, gloEntity, gloStrI, gloLiteral,
     gloExtI0, gloExtI1, gloExtI2, gloPi, gloLiteralC,
     gloExtT0, gloExtT1, gloExtT2, gloStrT, gloLiteralA,
     gloExt0, gloExt1, gloExt2, gloOpaque, gloLiteralAC}

\* C35: the tag byte composed for a code from 5 to 63 is no global token, and Tag.ID,
\* Tag.Attr and Tag.Content give back the code, whether the token has attributes and
\* its Content
C35_TagByte ==
    /\ tagByte.st \in {"composed", "read"} => tagByte.b \notin GlobalTokens
    /\ tagByte.st = "read" =>
           /\ tagByte.ID = tagByte.code
           /\ tagByte.Attr = (tagByte.tok.Attr # <<>>)
           /\ tagByte.Content = tagByte.tok.Content

\* the largest code with both flags has been composed and read
C35_Witness ==
    /\ tagByte.st = "read" /\ tagByte.code = 63
    /\ tagByte.tok.Attr # <<>> /\ tagByte.tok.Content /\ tagByte.b = 255

(* Properties of the suppress-end stack (specification SpecEnc). *)

\* C36: e.ignoreEnd is empty once a tree of tokens is encoded in full, and before that
\* it holds nothing, or only the name of the element without content that is open, the
\* EndElement of which is the next token
C36_IgnoreEnd ==
    LET open == OpenElems(Toks(T), <<>>)
    IN /\ (T # <<>> /\ open = <<>>) => e.ignoreEnd = <<>>
       /\ \/ e.ignoreEnd = <<>>
          \/ /\ open # <<>> /\ ~open[Len(open)].Content
             /\ e.ignoreEnd = <<open[Len(open)].Name>>

\* inside an element with content, an element without content was encoded, and the
\* EndElements of both
C36_Witness ==
    /\ Len(T) = 4 /\ OpenElems(Toks(T), <<>>) = <<>>
    /\ T[1].tok.type = "StartElement" /\ T[1].post.ignoreEnd = <<>>
    /\ T[2].tok.type = "StartElement" /\ T[2].post.ignoreEnd = <<T[2].tok.Name>>
    /\ T[3].post.ignoreEnd = <<>> /\ T[3].out = <<>>
    /\ e.ignoreEnd = <<>>

(* Properties of the calls that fail (specification SpecEnc). *)

\* the call T[i] is for an element whose name is not in the tag code space, or for a
\* ProcInst
Refused(i) ==
    \/ /\ T[i].tok.type \in {"StartElement", "EndElement"}
       /\ \A p \in DOMAIN tagSpace : \A c \in DOMAIN tagSpace[p] :
             tagSpace[p][c] # T[i].tok.Name
    \/ T[i].tok.type = "ProcInst"

\* C37: a call for an unknown element name or for a ProcInst returns an error, writes
\* nothing and leaves the tag page and e.ignoreEnd as they were
C37_RefusedUnchanged ==
    \A i \in 1..Len(T) :
        Refused(i) =>
            /\ T[i].err # "nil" /\ T[i].out = <<>>
            /\ T[i].post.tagPage = T[i].pre.tagPage
            /\ T[i].post.ignoreEnd = T[i].pre.ignoreEnd

\* on tag page 1, a StartElement and an EndElement of an unknown name and a ProcInst
\* were refused
C37_Witness ==
    /\ Len(T) = 4 /\ T[1].post.tagPage = 1
    /\ T[2].tok.type = "StartElement" /\ Refused(2)
    /\ T[3].tok.type = "EndElement" /\ Refused(3)
    /\ T[4].tok.type = "ProcInst"


-----------------------------------------------------------------------------
(* Properties of an ENTITY read after character data (specification Spec). *)

\* the character data pending where the producer stands, in content or in an
\* attribute value
Pending ==
    IF pc = "content" THEN stack[Len(stack)].cdata.data
    ELSE IF pc = "attrValue" THEN elt.val.data
    ELSE <<>>

\* the producer stands before an ENTITY whose code is complete on the stream,
\* with character data pending
EntityAfterData ==
    /\ pc \in {"content", "attrValue"}
    /\ tokChan = <<>>
    /\ Pending # <<>>
    /\ readByte(d.offset).st = "ok"
    /\ readByte(d.offset).val = gloEntity
    /\ mbUint32(d.offset + 1).st = "ok"

\* C38: the step that reads an ENTITY after non-empty character data either appends
\* 1 to 4 bytes to the pending CharData or closes the stream with an error for
\* Token to return; it never ends the decoding in another way
C38_EntityAppendsOrErr ==
    [][(EntityAfterData /\ <<d, pc>>' # <<d, pc>>) =>
          \/ /\ pc' = pc
             /\ Len(Pending') - Len(Pending) \in 1..4
             /\ SubSeq(Pending', 1, Len(Pending)) = Pending
          \/ pc' = "closed" /\ d'.err # "nil"]_vars

-----------------------------------------------------------------------------
(* Properties of the Header field of the decoder (specification Spec).     *)

\* C39: d.Header is assigned by one step only, that of run() between readHeader and
\* body(), when it still holds the zero value and no token was sent or received;
\* once Token has returned a token, d.Header is the header that readHeader decoded
\* from the start of the stream.  Before that, a read of d.Header by the consumer is
\* ordered with the assignment by nothing: it can meet pc = "run" as well as the
\* states after it
C39_HeaderWrittenOnce ==
    /\ [][d'.Header # d.Header =>
             /\ pc = "run" /\ pc' = "body"
             /\ d.Header = NoHeader
             /\ tokChan = <<>> /\ delivered = <<>> /\ tokChan' = <<>>
             /\ ret.err = "none"]_vars
    /\ [](delivered # <<>> =>
             /\ readHeader(0).st = "ok"
             /\ d.Header = readHeader(0).h)

\* C39 happens: a token was returned by Token and the header holds the string table
\* of the stream
C39_Witness ==
    /\ Len(delivered) = 1 /\ ret.tok = delivered[1]
    /\ d.Header # NoHeader
    /\ d.Header.StringTable = <<69, 0>>
====
